---- MODULE Spec2Model ----
(***************************************************************************)
(* GOCAD_VESSEL.process_gocad (src/scripts/gocad_vessel.py): the line-     *)
(* oriented parser of GOCAD TSURF / VSET / PLINE / VOXET files.  One       *)
(* action per branch of the text-processing loop; the action's guard is    *)
(* the branch's place in the if/elif chain.  A line is its token array     *)
(* splitstr_arr (upper-cased, quotes rewritten); numbers are integers      *)
(* (a float token such as "1.0" parses with float() but not with int()).   *)
(***************************************************************************)
EXTENDS Integers, Sequences, FiniteSets, TLC

VARIABLES
    scn,                    \* which input alphabet the run draws from
    fileExt,                \* os.path.splitext(filename_str)[1], a sequence of characters
    nondefault_coords,      \* constructor argument
    STOP_ON_EXC,            \* constructor argument stop_on_exc
    debug,                  \* logger.getEffectiveLevel() == logging.DEBUG
    pc,                     \* "first" | "loop" | "ret_true" | "ret_false" | "exit" | "raised"
    nlines,                 \* lines of file_lines consumed so far
    cur,                    \* the line processed last: its token array splitstr_arr
                            \* (the first line: its words as written in the file)
    inHeader, inCoord, inPropClassHeader, inLocalPropClassHeader,
    propClassIndex,
    seq_no, seq_no_prev,
    is_ts, is_vs, is_pl, is_vo,
    invert_zaxis, xyz_mult, xyz_unit,
    coord_sys_name, usesDefaultCoords,
    header_name, rgba_tup,
    vrtx_arr, atom_arr, trgl_arr, seg_arr,
    prop_dict, local_props,
    axis_origin, axis_u, axis_v, axis_w, vol_dims, axis_min, axis_max,
    voxel_runs,             \* number of times __read_voxel_files was entered
    files,                  \* the directory src_dir: file name -> the file's bytes
    prop_order,             \* the keys of prop_dict in insertion order
    opened,                 \* the files __read_voxel_files asked the size of, in order
    flags_array_length, flags_bit_length, flags_bit_size, flags_offset,
    flags_file,             \* '' until a FLAGS_FILE line names the region-flags file
    region_dict,            \* bit number (a token) -> region name
    flags_dict,             \* cell (x, y, z) -> region name
    line,                   \* one line of file_lines, a sequence of characters
    line_str,               \* the line upper-cased, its quoted parts rewritten so far
    splitstr_arr,           \* line_str.split(): each token a sequence of characters
    passes,                 \* passes of the quote-rewriting loop made on the line
    tpc                     \* "idle" | "upper" | "quotes" | "done"

tokvars == <<line, line_str, splitstr_arr, passes, tpc>>
cfgvars == <<scn, fileExt, nondefault_coords, STOP_ON_EXC, debug, tokvars>>
ctlvars == <<pc, nlines, cur>>
ctxvars == <<inHeader, inCoord, inPropClassHeader, inLocalPropClassHeader, propClassIndex>>
seqvars == <<seq_no, seq_no_prev>>
typevars == <<is_ts, is_vs, is_pl, is_vo>>
coordvars == <<invert_zaxis, xyz_mult, xyz_unit, coord_sys_name, usesDefaultCoords>>
hdrvars == <<header_name, rgba_tup>>
geomvars == <<vrtx_arr, atom_arr, trgl_arr, seg_arr>>
propvars == <<prop_dict, local_props>>
axisvars == <<axis_origin, axis_u, axis_v, axis_w, vol_dims, axis_min, axis_max>>
flagvars == <<flags_array_length, flags_bit_length, flags_bit_size, flags_offset,
              flags_file, region_dict, flags_dict>>
binvars == <<files, prop_order, opened, flagvars>>
vars == <<cfgvars, ctlvars, ctxvars, seqvars, typevars, coordvars, hdrvars,
          geomvars, propvars, axisvars, voxel_runs, binvars>>

(* ------------------------------ bounds -------------------------------- *)
\* Lines of one file that a run processes (the first line included).
MaxLines == 5

\* Lines of one file with per-point properties (PVRTX / PATOM runs).
MaxPointLines == 6

\* Lines of one VOXET file with binary property classes.
MaxVoxetLines == 9

\* Lines of one VOXET file whose binary property file is decoded.
MaxDecodeLines == 13

\* Lines of one file whose point property takes infinity tokens.
MaxFloatLines == 6

\* Lines of one VOXET file with a region-flags file.
MaxFlagsLines == 13

\* Characters of a line whose tokenization is followed character by character.
MaxLineLen == 6

\* Lines of one file whose headers hold geometry, axis, property and flags lines.
MaxHeaderLines == 5

(* ----------------------------- strings -------------------------------- *)
None == "None"

\* None where the value would be a tuple or a number: the empty tuple; a
\* number that is set is held as the 1-tuple Some(v).
NoneT == <<>>
Some(v) == <<v>>

\* str.upper() on the characters and words the inputs are drawn from.
UpperTable ==
    [a |-> "A", t |-> "T", s |-> "S", v |-> "V", p |-> "P", l |-> "L", g |-> "G", o |-> "O",
     x |-> "X", gocad |-> "GOCAD", tsurf |-> "TSURF", pline |-> "PLINE",
     TSurf |-> "TSURF", VSet |-> "VSET", PLine |-> "PLINE", Voxet |-> "VOXET",
     HeterogeneousGroup |-> "HETEROGENEOUSGROUP"]

Upper(w) == IF w \in DOMAIN UpperTable THEN UpperTable[w] ELSE w

UpperSeq(s) == [i \in 1..Len(s) |-> Upper(s[i])]

\* str.lstrip('.'): drop every leading dot.
RECURSIVE LStripDot(_)
LStripDot(s) == IF s # <<>> /\ Head(s) = "." THEN LStripDot(Tail(s)) ELSE s

\* GOCAD_HEADERS: the first lines each extension may have, as word sequences.
GOCAD_HEADERS ==
    [TS |-> {<<"GOCAD", "TSURF", "1">>},
     VS |-> {<<"GOCAD", "VSET", "1">>},
     PL |-> {<<"GOCAD", "PLINE", "1">>},
     GP |-> {<<"GOCAD", "HETEROGENEOUSGROUP", "1">>, <<"GOCAD", "HOMOGENEOUSGROUP", "1">>},
     VO |-> {<<"GOCAD", "VOXET", "1">>}]

\* The keys of GOCAD_HEADERS as extension strings (character sequences).
ExtKey(e) ==
    IF e = <<"T", "S">> THEN "TS"
    ELSE IF e = <<"V", "S">> THEN "VS"
    ELSE IF e = <<"P", "L">> THEN "PL"
    ELSE IF e = <<"G", "P">> THEN "GP"
    ELSE IF e = <<"V", "O">> THEN "VO"
    ELSE None

\* __setType: the type the first line gives the file, or None (return False).
\* For a GP extension the first key other than GP whose headers hold the line
\* replaces the extension; then the extension must own the line.
setTypeMissesGroupMember(ext, firstLineStr) ==
    LET k == ExtKey(UpperSeq(LStripDot(ext)))
    IN  IF k \in {"TS", "VS", "PL", "VO"} /\ firstLineStr \in GOCAD_HEADERS[k]
        THEN k ELSE None

setTypeOf(ext, firstLineStr) ==
    LET k0 == ExtKey(UpperSeq(LStripDot(ext)))
        members == {k \in {"TS", "VS", "PL", "VO"} : firstLineStr \in GOCAD_HEADERS[k]}
        k == IF k0 = "GP"
             THEN (IF members = {} THEN None ELSE CHOOSE m \in members : TRUE)
             ELSE k0
    IN  IF k \in {"TS", "VS", "PL", "VO"} /\ firstLineStr \in GOCAD_HEADERS[k]
        THEN k ELSE None

(* ----------------------------- numbers -------------------------------- *)
\* int(): the tokens int() accepts, with their values.
IntTokens == {"0", "1", "2", "3", "4", "5"}

IntTable == [t \in IntTokens |->
    IF t = "0" THEN 0 ELSE IF t = "1" THEN 1 ELSE IF t = "2" THEN 2
    ELSE IF t = "3" THEN 3 ELSE IF t = "4" THEN 4 ELSE 5]

\* float() accepts every int() token and the tokens written with a point.
FloatOnlyTable == [t \in {"1.0", "2.0", "7.0", "-9.0"} |->
    IF t = "1.0" THEN 1 ELSE IF t = "2.0" THEN 2 ELSE IF t = "7.0" THEN 7 ELSE 0 - 9]

IsInt(t) == t \in IntTokens
IntOf(t) == IntTable[t]
IsFloat(t) == t \in IntTokens \/ t \in DOMAIN FloatOnlyTable
FloatOf(t) == IF t \in IntTokens THEN IntTable[t] ELSE FloatOnlyTable[t]

\* sys.float_info.max, the value the infinity tokens scan to.
FloatMax == 1000000

\* As HandleExcExits, with the logger's level not looked at.
HandleExcExitsOnStop == STOP_ON_EXC

\* __handle_exc: the process exits iff the level is DEBUG or STOP_ON_EXC is set.
HandleExcExits == debug \/ STOP_ON_EXC

\* As parse_float, with the no-data value never looked at.
parse_floatNoNull(fp_str, null_val) ==
    IF fp_str \in {"1.#INF", "INF"} THEN [conv |-> TRUE, fp |-> FloatMax, exc |-> FALSE]
    ELSE IF fp_str \in {"-1.#INF", "-INF"} THEN [conv |-> TRUE, fp |-> 0 - FloatMax, exc |-> FALSE]
    ELSE IF IsFloat(fp_str) THEN [conv |-> TRUE, fp |-> FloatOf(fp_str), exc |-> FALSE]
    ELSE [conv |-> FALSE, fp |-> 0, exc |-> TRUE]

\* As parse_float, with the infinity tokens compared with the no-data value too.
parse_floatInfChecked(fp_str, null_val) ==
    LET fp == IF fp_str \in {"1.#INF", "INF"} THEN FloatMax
              ELSE IF fp_str \in {"-1.#INF", "-INF"} THEN 0 - FloatMax
              ELSE IF IsFloat(fp_str) THEN FloatOf(fp_str) ELSE 0
    IN  IF ~IsFloat(fp_str) /\ fp = 0 THEN [conv |-> FALSE, fp |-> 0, exc |-> TRUE]
        ELSE IF null_val # NoneT /\ fp = null_val[1]
        THEN [conv |-> FALSE, fp |-> null_val[1], exc |-> FALSE]
        ELSE [conv |-> TRUE, fp |-> fp, exc |-> FALSE]

\* __parse_float(fp_str, null_val): conv is the boolean returned, fp the value,
\* exc whether __handle_exc was called on the way.
parse_float(fp_str, null_val) ==
    IF fp_str \in {"1.#INF", "INF"} THEN [conv |-> TRUE, fp |-> FloatMax, exc |-> FALSE]
    ELSE IF fp_str \in {"-1.#INF", "-INF"} THEN [conv |-> TRUE, fp |-> 0 - FloatMax, exc |-> FALSE]
    ELSE IF IsFloat(fp_str)
         THEN IF null_val # NoneT /\ FloatOf(fp_str) = null_val[1]
              THEN [conv |-> FALSE, fp |-> null_val[1], exc |-> FALSE]
              ELSE [conv |-> TRUE, fp |-> FloatOf(fp_str), exc |-> FALSE]
         ELSE [conv |-> FALSE, fp |-> 0, exc |-> TRUE]

\* The multiplication by xyz_mult in __parse_XYZ (convert and float values).
Scale(xyz, convert) ==
    IF convert
    THEN <<xyz[1] * xyz_mult[1], xyz[2] * xyz_mult[2], xyz[3] * xyz_mult[3]>>
    ELSE xyz

\* __parse_XYZ(is_float, x_str, y_str, z_str, do_minmax, convert): ok is the
\* boolean returned, exc whether __handle_exc was called.
parse_XYZ(is_float, x_str, y_str, z_str, convert) ==
    IF is_float
    THEN LET px == parse_float(x_str, NoneT)
             py == parse_float(y_str, NoneT)
             pz == parse_float(z_str, NoneT)
         IN  IF px.conv /\ py.conv /\ pz.conv
             THEN [ok |-> TRUE, xyz |-> Scale(<<px.fp, py.fp, pz.fp>>, convert), exc |-> FALSE]
             ELSE [ok |-> FALSE, xyz |-> <<>>, exc |-> px.exc \/ py.exc \/ pz.exc]
    ELSE IF IsInt(x_str) /\ IsInt(y_str) /\ IsInt(z_str)
         THEN [ok |-> TRUE, xyz |-> <<IntOf(x_str), IntOf(y_str), IntOf(z_str)>>, exc |-> FALSE]
         ELSE [ok |-> FALSE, xyz |-> <<>>, exc |-> TRUE]

(* --------------------------- the containers --------------------------- *)
\* PROPS.__init__
PROPS(class_name) ==
    [class_name |-> class_name, file_name |-> "", data_sz |-> 0, data_type |-> "f",
     signed_int |-> FALSE, no_data_marker |-> NoneT, colourmap_name |-> "",
     colour_map |-> <<>>, data |-> <<>>, data_stats |-> NoneT]

\* dict assignment d[k] = v
Put(d, k, v) == [x \in DOMAIN d \cup {k} |-> IF x = k THEN v ELSE d[x]]

\* Position of class_name in the OrderedDict local_props, 0 if absent.
LocalIndex(props, name) ==
    IF \E i \in 1..Len(props) : props[i].class_name = name
    THEN CHOOSE i \in 1..Len(props) : props[i].class_name = name
    ELSE 0

\* local_props[class_name] = PROPS(class_name): a new key goes last, an
\* existing key keeps its place and gets the new object.
RECURSIVE DeclareProps(_, _)
DeclareProps(props, names) ==
    IF names = <<>> THEN props
    ELSE LET n == Head(names)
             i == LocalIndex(props, n)
         IN  DeclareProps(IF i = 0 THEN Append(props, PROPS(n))
                          ELSE [props EXCEPT ![i] = PROPS(n)], Tail(names))

\* MODEL_GEOMETRIES._check_vertex: the vertex number is one already stored.
check_vertex(v_num) == \E i \in 1..Len(vrtx_arr) : vrtx_arr[i].n = v_num

\* make_vertex_dict: vertex sequence number -> 1-based insertion position
\* (the last vertex with that number wins), then every atom's number -> the
\* position of the first vertex the atom refers to.
RECURSIVE AtomsIntoDict(_, _, _)
AtomsIntoDict(d, verts, atoms) ==
    IF atoms = <<>> THEN d
    ELSE LET a == Head(atoms)
             hits == {i \in 1..Len(verts) : verts[i].n = a.v}
         IN  AtomsIntoDict(IF hits = {} THEN d
                           ELSE Put(d, a.n, CHOOSE i \in hits : \A j \in hits : i <= j),
                           verts, Tail(atoms))

\* As make_vertex_dict, with every sequence number taken for the position.
make_vertex_dictByNumber(verts, atoms) ==
    [n \in {verts[i].n : i \in 1..Len(verts)} \cup {atoms[k].n : k \in 1..Len(atoms)} |-> n]

make_vertex_dict(verts, atoms) ==
    LET ns == {verts[i].n : i \in 1..Len(verts)}
        d0 == [n \in ns |-> CHOOSE i \in 1..Len(verts) :
                   verts[i].n = n /\ \A j \in 1..Len(verts) : verts[j].n = n => j <= i]
    IN  AtomsIntoDict(d0, verts, atoms)

(* ------------------------ per-point properties ------------------------ *)
\* splitstr_arr[i], with Python's 0-based index.
A(s, i) == s[i + 1]

\* fp_str[:2].upper() == 'CN': the control-node tokens of the inputs.
IsCN(t) == t \in {"CNXYZ", "CNXY", "CNZ"}

\* A stored value is a tuple: <<fp>> for a float, <<fpX, fpY, fpZ>> for an XYZ.
\* __parse_props(splitstr_arr, coord_tup, is_patom), from property i and
\* column col on: the property table afterwards and how the call ended
\* ("ok", "exit" for sys.exit, "IndexError" for a token that is not there).
RECURSIVE ParsePropsFrom(_, _, _, _, _)
ParsePropsFrom(s, coord, props, i, col) ==
    IF i > Len(props) THEN [props |-> props, out |-> "ok"]
    ELSE
    LET p == props[i] IN
    IF p.data_sz = 1 THEN
        IF col >= Len(s) THEN [props |-> props, out |-> "IndexError"]
        ELSE
        LET c2 == IF IsCN(A(s, col)) THEN col + 1 ELSE col IN
        IF c2 >= Len(s) THEN [props |-> props, out |-> "IndexError"]
        ELSE
        LET r == parse_float(A(s, c2), p.no_data_marker) IN
        IF r.exc /\ HandleExcExits THEN [props |-> props, out |-> "exit"]
        ELSE ParsePropsFrom(s, coord,
                 IF r.conv THEN [props EXCEPT ![i].data = Put(p.data, coord, <<r.fp>>)]
                 ELSE props,
                 i + 1, c2 + 1)
    ELSE IF p.data_sz = 3 THEN
        IF col >= Len(s) THEN [props |-> props, out |-> "IndexError"]
        ELSE
        LET c2 == IF IsCN(A(s, col)) THEN col + 1 ELSE col IN
        IF c2 + 2 >= Len(s) THEN [props |-> props, out |-> "IndexError"]
        ELSE
        LET rx == parse_float(A(s, c2), p.no_data_marker)
            ry == parse_float(A(s, c2 + 1), p.no_data_marker)
            rz == parse_float(A(s, c2 + 2), p.no_data_marker)
        IN
        IF (rx.exc \/ ry.exc \/ rz.exc) /\ HandleExcExits
        THEN [props |-> props, out |-> "exit"]
        ELSE ParsePropsFrom(s, coord,
                 IF rx.conv /\ ry.conv /\ rz.conv
                 THEN [props EXCEPT ![i].data = Put(p.data, coord, <<rx.fp, ry.fp, rz.fp>>)]
                 ELSE props,
                 i + 1, c2 + 3)
    ELSE [props |-> props, out |-> "exit"]

\* As parse_props, with the PVRTX values read from the column before.
parse_propsShifted(s, coord, is_patom) ==
    ParsePropsFrom(s, coord, local_props, 1, IF is_patom THEN 3 ELSE 4)

parse_props(s, coord, is_patom) ==
    ParsePropsFrom(s, coord, local_props, 1, IF is_patom THEN 3 ELSE 5)

\* As Branch, with the three header contexts tested after the keywords.
BranchContextLast(s) ==
    IF A(s, 0) \in {"SUBVSET", "ILINE", "TFACE", "TVOLUME"} THEN "subset"
    ELSE IF A(s, 0) = "CNP" THEN "cnp"
    ELSE IF A(s, 0) = "GOCAD_ORIGINAL_COORDINATE_SYSTEM" THEN "coord_open"
    ELSE IF A(s, 0) = "END_ORIGINAL_COORDINATE_SYSTEM" THEN "coord_close"
    ELSE IF inCoord /\ A(s, 0) = "NAME" THEN "coord_name"
    ELSE IF inCoord /\ A(s, 0) = "ZPOSITIVE" /\ Len(s) < 2 THEN "IndexError"
    ELSE IF inCoord /\ A(s, 0) = "ZPOSITIVE" /\ A(s, 1) = "DEPTH" THEN "zpositive"
    ELSE IF A(s, 0) = "HEADER" THEN "header_open"
    ELSE IF A(s, 0) = "PROPERTY_CLASS_HEADER" THEN "prop_class_header"
    ELSE IF inHeader /\ A(s, 0) = "}" THEN "header_close"
    ELSE IF A(s, 0) = "AXIS_UNIT" THEN "axis_unit"
    ELSE IF A(s, 0) \in {"PROPERTIES", "PROPERTY_CLASSES"} THEN "properties"
    ELSE IF A(s, 0) = "ESIZES" THEN "esizes"
    ELSE IF A(s, 0) = "NO_DATA_VALUES" THEN "no_data_values"
    ELSE IF A(s, 0) \in {"ATOM", "PATOM"} THEN "atom"
    ELSE IF A(s, 0) \in {"PVRTX", "VRTX"} THEN "vrtx"
    ELSE IF A(s, 0) = "TRGL" THEN "trgl"
    ELSE IF A(s, 0) = "SEG" THEN "seg"
    ELSE IF A(s, 0) = "PROP_FILE" THEN "prop_file"
    ELSE IF A(s, 0) = "PROP_ESIZE" THEN "prop_esize"
    ELSE IF A(s, 0) = "PROP_STORAGE_TYPE" THEN "prop_storage_type"
    ELSE IF A(s, 0) = "PROP_SIGNED" THEN "prop_signed"
    ELSE IF A(s, 0) = "PROP_ETYPE" THEN "prop_etype"
    ELSE IF A(s, 0) = "PROP_EFORMAT" THEN "prop_eformat"
    ELSE IF A(s, 0) = "PROP_OFFSET" THEN "prop_offset"
    ELSE IF A(s, 0) = "PROP_NO_DATA_VALUE" THEN "prop_no_data_value"
    ELSE IF A(s, 0) \in {"AXIS_O", "AXIS_U", "AXIS_V", "AXIS_W", "AXIS_N",
                         "AXIS_MIN", "AXIS_MAX"} THEN "axis"
    ELSE IF A(s, 0) \in {"FLAGS_ARRAY_LENGTH", "FLAGS_BIT_LENGTH", "FLAGS_ESIZE",
                         "FLAGS_OFFSET"} THEN "flags_int"
    ELSE IF A(s, 0) = "FLAGS_FILE" THEN "flags_file"
    ELSE IF A(s, 0) = "REGION" THEN "region"
    ELSE IF inPropClassHeader THEN "in_prop_class_header"
    ELSE IF inLocalPropClassHeader THEN "in_local_prop_class_header"
    ELSE IF inHeader THEN "in_header"
    ELSE "other"

(* --------------------------- the dispatch ----------------------------- *)
\* The branch of the loop body a non-blank line takes after the first line:
\* the if/elif chain of process_gocad, in its order.  "IndexError" and
\* "KeyError" are the exceptions a condition of the chain itself raises.
Branch(s) ==
    IF A(s, 0) \in {"SUBVSET", "ILINE", "TFACE", "TVOLUME"} THEN "subset"
    ELSE IF A(s, 0) = "CNP" THEN "cnp"
    ELSE IF A(s, 0) = "GOCAD_ORIGINAL_COORDINATE_SYSTEM" THEN "coord_open"
    ELSE IF A(s, 0) = "END_ORIGINAL_COORDINATE_SYSTEM" THEN "coord_close"
    ELSE IF inCoord /\ A(s, 0) = "NAME" THEN "coord_name"
    ELSE IF inCoord /\ A(s, 0) = "ZPOSITIVE" /\ Len(s) < 2 THEN "IndexError"
    ELSE IF inCoord /\ A(s, 0) = "ZPOSITIVE" /\ A(s, 1) = "DEPTH" THEN "zpositive"
    ELSE IF A(s, 0) = "HEADER" THEN "header_open"
    ELSE IF A(s, 0) = "PROPERTY_CLASS_HEADER" THEN "prop_class_header"
    ELSE IF inHeader /\ A(s, 0) = "}" THEN "header_close"
    ELSE IF inPropClassHeader THEN "in_prop_class_header"
    ELSE IF inLocalPropClassHeader THEN "in_local_prop_class_header"
    ELSE IF inHeader THEN "in_header"
    ELSE IF A(s, 0) = "AXIS_UNIT" THEN "axis_unit"
    ELSE IF A(s, 0) \in {"PROPERTIES", "PROPERTY_CLASSES"} THEN "properties"
    ELSE IF A(s, 0) = "ESIZES" THEN "esizes"
    ELSE IF A(s, 0) = "NO_DATA_VALUES" THEN "no_data_values"
    ELSE IF A(s, 0) \in {"ATOM", "PATOM"} THEN "atom"
    ELSE IF A(s, 0) \in {"PVRTX", "VRTX"} THEN "vrtx"
    ELSE IF A(s, 0) = "TRGL" THEN "trgl"
    ELSE IF A(s, 0) = "SEG" THEN "seg"
    ELSE IF A(s, 0) = "PROP_FILE" THEN "prop_file"
    ELSE IF A(s, 0) = "PROP_ESIZE" THEN "prop_esize"
    ELSE IF A(s, 0) = "PROP_STORAGE_TYPE" THEN "prop_storage_type"
    ELSE IF A(s, 0) = "PROP_SIGNED" THEN "prop_signed"
    ELSE IF A(s, 0) = "PROP_ETYPE" THEN "prop_etype"
    ELSE IF A(s, 0) = "PROP_EFORMAT" THEN "prop_eformat"
    ELSE IF A(s, 0) = "PROP_OFFSET" THEN "prop_offset"
    ELSE IF A(s, 0) = "PROP_NO_DATA_VALUE" THEN "prop_no_data_value"
    ELSE IF A(s, 0) \in {"AXIS_O", "AXIS_U", "AXIS_V", "AXIS_W", "AXIS_N",
                         "AXIS_MIN", "AXIS_MAX"} THEN "axis"
    ELSE IF A(s, 0) \in {"FLAGS_ARRAY_LENGTH", "FLAGS_BIT_LENGTH", "FLAGS_ESIZE",
                         "FLAGS_OFFSET"} THEN "flags_int"
    ELSE IF A(s, 0) = "FLAGS_FILE" THEN "flags_file"
    ELSE IF A(s, 0) = "REGION" THEN "region"
    ELSE "other"

(* ----------------------------- the inputs ----------------------------- *)
\* File extensions, as os.path.splitext returns them.
ExtsOf(sc) ==
    IF sc = "type"
    THEN {<<".", "t", "s">>, <<".", "T", "S">>, <<".", "v", "s">>, <<".", "p", "l">>,
          <<".", "v", "o">>, <<".", "V", "o">>, <<".", "g", "p">>, <<".", "G", "P">>,
          <<".", "x">>, <<>>}
    ELSE IF sc \in {"voxet", "binary", "decode", "flags", "noprops"} THEN {<<".", "v", "o">>}
    ELSE IF sc = "encoding" THEN {<<".", "v", "o">>, <<".", "t", "s">>}
    ELSE {<<".", "t", "s">>}

\* First non-blank lines, as written in the file (before str.upper()).
FirstLinesOf(sc) ==
    IF sc = "type"
    THEN {<<"GOCAD", "TSurf", "1">>, <<"gocad", "tsurf", "1">>, <<"GOCAD", "VSet", "1">>,
          <<"GOCAD", "VSET", "1">>, <<"GOCAD", "PLine", "1">>, <<"gocad", "pline", "1">>,
          <<"GOCAD", "Voxet", "1">>, <<"GOCAD", "VOXET", "1">>,
          <<"GOCAD", "HeterogeneousGroup", "1">>, <<"GOCAD", "HOMOGENEOUSGROUP", "1">>,
          <<"GOCAD", "TSURF", "2">>, <<"GOCAD", "TSURF">>, <<"HEADER", "{">>}
    ELSE IF sc = "voxet" THEN {<<"GOCAD", "Voxet", "1">>, <<"GOCAD", "TSurf", "1">>}
    ELSE IF sc \in {"binary", "decode", "flags", "noprops"} THEN {<<"GOCAD", "Voxet", "1">>}
    ELSE IF sc \in {"points", "patom", "float"} THEN {<<"GOCAD", "TSurf", "1">>}
    ELSE {<<"GOCAD", "TSurf", "1">>, <<"GOCAD", "Voxet", "1">>}

\* The lines after the first (their token arrays), per input family.
CtxLines ==
    {<<"GOCAD_ORIGINAL_COORDINATE_SYSTEM">>, <<"END_ORIGINAL_COORDINATE_SYSTEM">>,
     <<"NAME", "DEFAULT">>, <<"NAME", "FROM_SHAPE">>, <<"NAME">>,
     <<"ZPOSITIVE", "DEPTH">>,
     <<"HEADER", "{">>, <<"}">>,
     <<"PROPERTY_CLASS_HEADER", "1", "{">>, <<"PROPERTY_CLASS_HEADER", "1", "TEMP", "{">>,
     <<"PROPERTY_CLASS_HEADER", "2", "{">>,
     <<"PROPERTY_CLASS_HEADER", "1", "TEMP", "X">>, <<"PROPERTY_CLASS_HEADER", "1">>,
     <<"NAME:", "A/B">>, <<"COLORMAP:", "FLAG">>,
     <<"VRTX", "1", "1", "2", "3">>, <<"ATOM", "2", "1">>,
     <<"TRGL", "1", "2", "3">>, <<"SEG", "1", "2">>}

GeomLines ==
    {<<"GOCAD_ORIGINAL_COORDINATE_SYSTEM">>, <<"END_ORIGINAL_COORDINATE_SYSTEM">>,
     <<"ZPOSITIVE", "DEPTH">>, <<"ZPOSITIVE", "ELEVATION">>, <<"ZPOSITIVE">>,
     <<"HEADER", "{">>, <<"}">>,
     <<"AXIS_UNIT", "KM", "M", "M">>, <<"AXIS_UNIT", "M", "KM", "M">>,
     <<"AXIS_UNIT", "M", "FT", "KM">>, <<"AXIS_UNIT", "KM", "M">>,
     <<"VRTX", "1", "1", "2", "3">>, <<"VRTX", "3", "1.0", "1.0", "1.0">>,
     <<"PVRTX", "2", "2", "1", "3", "7.0">>,
     <<"VRTX", "1", "1", "X", "3">>, <<"VRTX", "1.0", "1", "2", "3">>, <<"VRTX", "2", "1">>,
     <<"ATOM", "4", "1">>, <<"PATOM", "5", "3", "7.0">>, <<"ATOM", "4", "X">>, <<"ATOM", "4">>}

AxisLines ==
    {<<"AXIS_UNIT", "KM", "M", "M">>, <<"AXIS_UNIT", "M", "M", "KM">>,
     <<"HEADER", "{">>, <<"}">>,
     <<"AXIS_O", "1", "2", "3">>, <<"AXIS_U", "1", "2", "3">>, <<"AXIS_V", "1", "2", "3">>,
     <<"AXIS_W", "1", "2", "3">>, <<"AXIS_MIN", "1", "2", "3">>, <<"AXIS_MAX", "1", "2", "3">>,
     <<"AXIS_N", "2", "1", "1">>, <<"AXIS_N", "2.0", "1", "1">>,
     <<"AXIS_O", "1", "X", "3">>, <<"AXIS_U", "1", "2">>,
     <<"PROPERTY_CLASS_HEADER", "1", "TEMP", "{">>,
     <<"VRTX", "1", "1", "1", "1">>}

PropLines ==
    {<<"PROPERTIES", "P", "Q">>, <<"PROPERTY_CLASSES", "Q">>,
     <<"ESIZES", "1", "3">>, <<"ESIZES", "X", "1">>,
     <<"NO_DATA_VALUES", "-9.0", "7.0">>, <<"NO_DATA_VALUES", "X">>,
     <<"PROPERTY_CLASS_HEADER", "P", "{">>, <<"}">>,
     <<"COLORMAP:", "FLAG">>, <<"*COLORMAP*FLAG*COLORS:", "0", "1", "0", "0">>,
     <<"HEADER", "{">>, <<"*SOLID*COLOR:", "#FF0000">>, <<"*SOLID*COLOR:", "1", "X", "0">>,
     <<"*ATOMS*COLOR:", "1", "0">>,
     <<"PVRTX", "1", "1", "2", "3", "7.0", "1", "2", "3">>,
     <<"PVRTX", "2", "1", "2", "3", "CNXYZ", "2.0">>,
     <<"PATOM", "3", "1", "2.0">>,
     <<"SUBVSET">>, <<"CNP", "1">>, <<"END">>,
     <<"TRGL", "1", "2", "3", "4">>, <<"SEG", "1", "X">>}

\* Point properties declared, sized and given no-data markers, then PVRTX lines.
PointLines ==
    {<<"PROPERTIES", "P", "Q">>, <<"PROPERTY_CLASSES", "Q">>, <<"PROPERTIES">>,
     <<"ESIZES", "1", "3">>, <<"NO_DATA_VALUES", "7.0", "2">>,
     <<"PVRTX", "1", "1", "2", "3", "7.0", "1", "2", "3">>,
     <<"PVRTX", "2", "3", "2", "1", "CNXYZ", "2.0", "CNXY", "1", "1", "3">>,
     <<"PVRTX", "3", "1", "1", "1", "2.0", "1", "CNXY", "2", "3">>,
     <<"PVRTX", "4", "2", "2", "2", "X", "1", "2", "3">>}

\* Vertices, then atoms with a property value.
PatomLines ==
    {<<"PROPERTIES", "P">>, <<"ESIZES", "1">>,
     <<"VRTX", "1", "1", "2", "3">>, <<"VRTX", "2", "3", "2", "1">>,
     <<"PATOM", "3", "1", "2.0">>, <<"PATOM", "4", "2", "2.0">>, <<"ATOM", "5", "1">>}

\* Two binary property classes, their files and the volume's dimensions.
BinaryLines ==
    {<<"PROPERTY_CLASS_HEADER", "1", "TEMP", "{">>, <<"PROPERTY_CLASS_HEADER", "2", "DENS", "{">>,
     <<"}">>,
     <<"PROP_FILE", "1", "F1">>, <<"PROP_FILE", "2", "F2">>,
     <<"PROP_ESIZE", "1", "4">>, <<"PROP_NO_DATA_VALUE", "1", "0">>,
     <<"AXIS_N", "2", "1", "1">>}

\* The encoding of a binary property class, supported and not.
EncodingLines ==
    {<<"PROPERTY_CLASS_HEADER", "1", "TEMP", "{">>, <<"}">>,
     <<"PROP_ETYPE", "1", "IEEE">>, <<"PROP_ETYPE", "1", "IBM">>,
     <<"PROP_EFORMAT", "1", "RAW">>, <<"PROP_EFORMAT", "1", "SEGY">>,
     <<"PROP_OFFSET", "1", "0">>, <<"PROP_OFFSET", "1", "4">>,
     <<"PROP_STORAGE_TYPE", "1", "OCTET">>, <<"PROP_STORAGE_TYPE", "1", "SHORT">>,
     <<"PROP_STORAGE_TYPE", "1", "LONG">>, <<"PROP_SIGNED", "1", "1">>,
     <<"PROP_ESIZE", "1", "X">>, <<"PROP_FILE", "1", "F1">>,
     <<"PROPERTY_CLASS_HEADER", "1", "DENS", "{">>}

\* A VOXET file with one binary property class, line by line: the lines that
\* may stand at each line number after the first (any of them may be blank).
\* Every storage type, element size and signedness, a no-data marker, the
\* volume's dimensions and its four axes.
DecodeLayout ==
    <<{},
      {<<"PROPERTY_CLASS_HEADER", "1", "TEMP", "{">>},
      {<<"}">>},
      {<<"PROP_FILE", "1", "F1">>},
      {<<"PROP_ESIZE", "1", "4">>, <<"PROP_ESIZE", "1", "1">>},
      {<<"PROP_STORAGE_TYPE", "1", "OCTET">>, <<"PROP_STORAGE_TYPE", "1", "SHORT">>},
      {<<"PROP_SIGNED", "1", "1">>},
      {<<"PROP_NO_DATA_VALUE", "1", "3">>},
      {<<"AXIS_N", "2", "1", "1">>, <<"AXIS_N", "2", "2", "2">>},
      {<<"AXIS_O", "1", "2", "3">>},
      {<<"AXIS_U", "1", "2", "3">>},
      {<<"AXIS_V", "1", "2", "3">>},
      {<<"AXIS_W", "1", "2", "3">>}>>

\* The tokens a point property's value is written with: the four infinity
\* tokens and two numbers.
ValueTokensOfFloat == {"INF", "1.#INF", "-INF", "-1.#INF", "7.0", "2.0"}

\* A file with one point property, a no-data marker and two PVRTX lines.
FloatLayout ==
    <<{},
      {<<"PROPERTIES", "P">>},
      {<<"ESIZES", "1">>},
      {<<"NO_DATA_VALUES", "7.0">>, <<"NO_DATA_VALUES", "INF">>, <<"NO_DATA_VALUES", "-1.#INF">>},
      {<<"PVRTX", "1", "1", "2", "3", v>> : v \in ValueTokensOfFloat},
      {<<"PVRTX", "2", "3", "2", "1", v>> : v \in ValueTokensOfFloat}>>

\* The region-flags lines of a VOXET: the declared element count, the record
\* size, the offset, the file and two REGION lines.
FlagsLinesFrom ==
    <<{<<"FLAGS_ARRAY_LENGTH", "2">>, <<"FLAGS_ARRAY_LENGTH", "3">>,
       <<"FLAGS_ARRAY_LENGTH", "X">>, <<"FLAGS_BIT_LENGTH", "5">>},
      {<<"FLAGS_ESIZE", "1">>, <<"FLAGS_ESIZE", "2">>},
      {<<"FLAGS_OFFSET", "0">>, <<"FLAGS_OFFSET", "1">>, <<"FLAGS_OFFSET">>},
      {<<"FLAGS_FILE", "FL">>, <<"FLAGS_FILE", "MISSING">>, <<"FLAGS_FILE">>},
      {<<"REGION", "SHALE", "3">>, <<"REGION", "SAND", "0">>, <<"REGION", "CLAY", "9">>},
      {<<"REGION", "COAL", "1">>, <<"REGION", "SAND", "0">>, <<"REGION", "X">>}>>

\* A VOXET with one binary property class whose file holds only no-data
\* values, then the region-flags lines.
FlagsLayout ==
    <<{},
      {<<"PROPERTY_CLASS_HEADER", "1", "TEMP", "{">>},
      {<<"}">>},
      {<<"PROP_FILE", "1", "F1">>},
      {<<"PROP_ESIZE", "1", "4">>},
      {<<"PROP_NO_DATA_VALUE", "1", "0">>},
      {<<"AXIS_N", "2", "1", "1">>}>> \o FlagsLinesFrom

\* A VOXET with no binary property class, and the same region-flags lines.
NoPropsLayout == <<{}, {<<"AXIS_N", "2", "1", "1">>}>> \o FlagsLinesFrom

\* The binary files of src_dir: F1 holds two big-endian floats, F2 three bytes.
FilesOf(sc) ==
    IF sc = "binary"
    THEN {[F1 |-> <<0, 0, 0, 0, 0, 0, 0, 0>>, F2 |-> <<1, 2, 3>>],
          [F1 |-> <<0, 0, 0, 0, 63, 128, 0, 0>>, F2 |-> <<1, 2, 3>>]}
    ELSE IF sc = "encoding" THEN {[F1 |-> <<1, 2>>]}
    ELSE IF sc \in {"flags", "noprops"}
    THEN {[F1 |-> <<0, 0, 0, 0, 0, 0, 0, 0>>, FL |-> fl] :
             fl \in {<<8, 11>>, <<4, 9>>, <<0, 2>>, <<8, 2, 1, 0>>}}
    ELSE IF sc = "decode"
    THEN {[F1 |-> <<73, 1, 3, 48, 201, 5, 6, 112>>], [F1 |-> <<64, 64, 0, 0, 63, 128, 0, 0>>],
          [F1 |-> <<64, 64, 0, 0, 64, 64, 0, 0>>]}
    ELSE {<<>>}

\* Geometry, axis, property and flags lines inside and outside the headers
\* and the coordinate-system block.
HeaderLines ==
    {<<"GOCAD_ORIGINAL_COORDINATE_SYSTEM">>,
     <<"HEADER", "{">>, <<"}">>,
     <<"PROPERTY_CLASS_HEADER", "1", "{">>, <<"PROPERTY_CLASS_HEADER", "1", "TEMP", "{">>,
     <<"VRTX", "1", "1", "2", "3">>, <<"ATOM", "2", "1">>,
     <<"TRGL", "1", "2", "3">>, <<"SEG", "1", "2">>,
     <<"AXIS_UNIT", "KM", "M", "M">>, <<"AXIS_N", "2", "1", "1">>, <<"AXIS_O", "1", "2", "3">>,
     <<"PROP_FILE", "1", "F1">>,
     <<"FLAGS_ESIZE", "2">>, <<"FLAGS_FILE", "FL">>, <<"REGION", "SHALE", "3">>}

Scenarios == {"ctx", "geom", "voxet", "props"}

LinesOf(sc) ==
    IF sc = "ctx" THEN CtxLines
    ELSE IF sc = "geom" THEN GeomLines
    ELSE IF sc = "voxet" THEN AxisLines
    ELSE IF sc = "props" THEN PropLines
    ELSE IF sc = "points" THEN PointLines
    ELSE IF sc = "patom" THEN PatomLines
    ELSE IF sc = "binary" THEN BinaryLines
    ELSE IF sc = "encoding" THEN EncodingLines
    ELSE IF sc = "header" THEN HeaderLines
    ELSE {}

\* The number of lines a run of each input family processes.
MaxLinesOf(sc) ==
    IF sc \in {"points", "patom"} THEN MaxPointLines
    ELSE IF sc = "header" THEN MaxHeaderLines
    ELSE IF sc = "binary" THEN MaxVoxetLines
    ELSE IF sc = "decode" THEN MaxDecodeLines
    ELSE IF sc = "float" THEN MaxFloatLines
    ELSE IF sc \in {"flags", "noprops"} THEN MaxFlagsLines
    ELSE MaxLines

\* The files of some input families are laid out line by line.
LayoutOf(sc) ==
    IF sc = "decode" THEN DecodeLayout
    ELSE IF sc = "float" THEN FloatLayout
    ELSE IF sc = "flags" THEN FlagsLayout
    ELSE IF sc = "noprops" THEN NoPropsLayout
    ELSE <<>>

\* The lines the next line of the file is drawn from.
Lines ==
    IF LayoutOf(scn) = <<>> THEN LinesOf(scn)
    ELSE IF nlines + 1 \in DOMAIN LayoutOf(scn) THEN LayoutOf(scn)[nlines + 1]
    ELSE {}

(* --------------------------- tokenization ----------------------------- *)
\* The characters of the lines that are tokenized: a lower-case and an
\* upper-case letter, the space, the tab and the double quote.
DQ == "dq"
TAB == "tab"
Chars == {"a", "B", " ", TAB, DQ}

\* str.split() splits on runs of whitespace.
IsWhite(c) == c \in {" ", TAB}

\* line.rstrip(' \n\r'): the trailing spaces go (a file line holds no line
\* end inside).
RECURSIVE RStrip(_)
RStrip(s) == IF s # <<>> /\ s[Len(s)] = " " THEN RStrip(SubSeq(s, 1, Len(s) - 1)) ELSE s

\* str.strip(' ').
RECURSIVE LStripSpace(_)
LStripSpace(s) == IF s # <<>> /\ Head(s) = " " THEN LStripSpace(Tail(s)) ELSE s
StripSpace(s) == RStrip(LStripSpace(s))

\* str.replace(' ', '_').
Underscored(s) == [i \in 1..Len(s) |-> IF s[i] = " " THEN "_" ELSE s[i]]

\* str.count('"').
CountDQ(s) == Cardinality({i \in 1..Len(s) : s[i] = DQ})

\* str.partition('"') of a string that holds a quote: the parts before and
\* after the first quote.
FirstDQ(s) == CHOOSE i \in 1..Len(s) : s[i] = DQ /\ \A j \in 1..(i - 1) : s[j] # DQ
BeforeDQ(s) == SubSeq(s, 1, FirstDQ(s) - 1)
AfterDQ(s) == SubSeq(s, FirstDQ(s) + 1, Len(s))

\* One pass of "while line_str.count('"') >= 2":
\* before_tup[0] + " " + after_tup[0].strip(' ').replace(' ','_') + " " + after_tup[2]
QuotePassOf(s) ==
    LET inner == BeforeDQ(AfterDQ(s))
    IN  BeforeDQ(s) \o <<" ">> \o Underscored(StripSpace(inner)) \o <<" ">> \o AfterDQ(AfterDQ(s))

\* str.split(): the maximal runs of characters that are not whitespace;
\* tok is the token being gathered.
RECURSIVE SplitFrom(_, _, _)
SplitFrom(s, i, tok) ==
    IF i > Len(s) THEN (IF tok = <<>> THEN <<>> ELSE <<tok>>)
    ELSE IF IsWhite(s[i])
    THEN (IF tok = <<>> THEN <<>> ELSE <<tok>>) \o SplitFrom(s, i + 1, <<>>)
    ELSE SplitFrom(s, i + 1, Append(tok, s[i]))

Split(s) == SplitFrom(s, 1, <<>>)

\* The tokenizer is not part of the run: the lines come as token arrays.
TokIdle ==
    /\ line = <<>> /\ line_str = <<>> /\ splitstr_arr = <<>> /\ passes = 0 /\ tpc = "idle"

\* "line_str = line.rstrip(' \n\r').upper()"
UpperLine ==
    /\ tpc = "upper"
    /\ line_str' = UpperSeq(RStrip(line))
    /\ tpc' = "quotes"
    /\ UNCHANGED <<scn, fileExt, nondefault_coords, STOP_ON_EXC, debug, line, splitstr_arr,
                   passes, ctlvars, ctxvars, seqvars, typevars, coordvars, hdrvars,
                   geomvars, propvars, axisvars, voxel_runs, binvars>>

\* One pass of the loop that rewrites double-quoted strings.
QuotePass ==
    /\ tpc = "quotes" /\ CountDQ(line_str) >= 2
    /\ line_str' = QuotePassOf(line_str)
    /\ passes' = passes + 1
    /\ UNCHANGED <<scn, fileExt, nondefault_coords, STOP_ON_EXC, debug, line, splitstr_arr,
                   tpc, ctlvars, ctxvars, seqvars, typevars, coordvars, hdrvars,
                   geomvars, propvars, axisvars, voxel_runs, binvars>>

\* The loop is left: "splitstr_arr = line_str.split()".
SplitLine ==
    /\ tpc = "quotes" /\ CountDQ(line_str) < 2
    /\ splitstr_arr' = Split(line_str)
    /\ tpc' = "done"
    /\ UNCHANGED <<scn, fileExt, nondefault_coords, STOP_ON_EXC, debug, line, line_str,
                   passes, ctlvars, ctxvars, seqvars, typevars, coordvars, hdrvars,
                   geomvars, propvars, axisvars, voxel_runs, binvars>>

(* ------------------------------- Init --------------------------------- *)
\* GOCAD_VESSEL.__init__ and the locals process_gocad sets before its loop.
InitObject ==
    /\ pc = "first" /\ nlines = 0 /\ cur = <<>>
    /\ inHeader = FALSE /\ inCoord = FALSE
    /\ inPropClassHeader = FALSE /\ inLocalPropClassHeader = FALSE
    /\ propClassIndex = ""
    /\ seq_no = 0 /\ seq_no_prev = 0 - 1
    /\ is_ts = FALSE /\ is_vs = FALSE /\ is_pl = FALSE /\ is_vo = FALSE
    /\ invert_zaxis = FALSE
    /\ xyz_mult = <<1, 1, 1>>
    /\ xyz_unit = <<None, None, None>>
    /\ coord_sys_name = "DEFAULT" /\ usesDefaultCoords = TRUE
    /\ header_name = "" /\ rgba_tup = NoneT
    /\ vrtx_arr = <<>> /\ atom_arr = <<>> /\ trgl_arr = <<>> /\ seg_arr = <<>>
    /\ prop_dict = <<>> /\ local_props = <<>>
    /\ axis_origin = NoneT /\ axis_u = NoneT /\ axis_v = NoneT /\ axis_w = NoneT
    /\ vol_dims = NoneT /\ axis_min = NoneT /\ axis_max = NoneT
    /\ voxel_runs = 0
    /\ prop_order = <<>> /\ opened = <<>>
    /\ flags_array_length = 0 /\ flags_bit_length = 0 /\ flags_bit_size = 0
    /\ flags_offset = 0 /\ flags_file = ""
    /\ region_dict = <<>> /\ flags_dict = <<>>

Init ==
    /\ scn \in Scenarios
    /\ fileExt \in ExtsOf(scn)
    /\ nondefault_coords \in (IF scn = "ctx" THEN BOOLEAN ELSE {FALSE})
    /\ STOP_ON_EXC \in BOOLEAN
    /\ debug \in (IF scn = "props" THEN BOOLEAN ELSE {FALSE})
    /\ files \in FilesOf(scn)
    /\ InitObject /\ TokIdle

(* ------------------------------ actions ------------------------------- *)
\* One more line is taken from file_lines and dispatched to branch tag.
Take(s, tag) ==
    /\ pc = "loop" /\ nlines < MaxLinesOf(scn)
    /\ s \in Lines
    /\ Branch(s) = tag
    /\ nlines' = nlines + 1
    /\ cur' = s

\* "if len(splitstr_arr)==0: continue"
BlankLine ==
    /\ pc \in {"first", "loop"} /\ nlines < MaxLinesOf(scn)
    /\ nlines' = nlines + 1
    /\ cur' = <<>>
    /\ UNCHANGED <<cfgvars, pc, ctxvars, seqvars, typevars, coordvars, hdrvars,
                   geomvars, propvars, axisvars, voxel_runs, binvars>>

\* "if not self.__setType(fileExt, line_str): return False", else "continue".
FirstLineOutcomeContinues(k) == "loop"

FirstLineOutcome(k) == IF k = None THEN "ret_false" ELSE "loop"

\* The first non-blank line: __setType decides the type or the call returns False.
FirstLine ==
    /\ pc = "first" /\ nlines < MaxLinesOf(scn)
    /\ \E raw \in FirstLinesOf(scn) :
         LET upper_str == UpperSeq(raw)
             k == setTypeOf(fileExt, upper_str)
         IN  /\ cur' = raw
             /\ is_ts' = (k = "TS") /\ is_vs' = (k = "VS")
             /\ is_pl' = (k = "PL") /\ is_vo' = (k = "VO")
             /\ pc' = FirstLineOutcome(k)
    /\ nlines' = nlines + 1
    /\ UNCHANGED <<cfgvars, ctxvars, seqvars, coordvars, hdrvars,
                   geomvars, propvars, axisvars, voxel_runs, binvars>>

\* SUBVSET, ILINE, TFACE, TVOLUME and CNP lines: "continue".
SkipKeyword ==
    /\ \E s \in Lines : Take(s, "subset") \/ Take(s, "cnp")
    /\ UNCHANGED <<cfgvars, pc, ctxvars, seqvars, typevars, coordvars, hdrvars,
                   geomvars, propvars, axisvars, voxel_runs, binvars>>

\* A line no branch of the chain matches.
UnmatchedLine ==
    /\ \E s \in Lines : Take(s, "other")
    /\ UNCHANGED <<cfgvars, pc, ctxvars, seqvars, typevars, coordvars, hdrvars,
                   geomvars, propvars, axisvars, voxel_runs, binvars>>

\* A condition of the chain indexes a token the line does not have.
ChainError ==
    /\ \E s \in Lines : Take(s, "IndexError")
    /\ pc' = "raised"
    /\ UNCHANGED <<cfgvars, ctxvars, seqvars, typevars, coordvars, hdrvars,
                   geomvars, propvars, axisvars, voxel_runs, binvars>>

CoordOpen ==
    /\ \E s \in Lines : Take(s, "coord_open")
    /\ inCoord' = TRUE
    /\ UNCHANGED <<cfgvars, pc, inHeader, inPropClassHeader, inLocalPropClassHeader,
                   propClassIndex, seqvars, typevars, coordvars, hdrvars,
                   geomvars, propvars, axisvars, voxel_runs, binvars>>

CoordClose ==
    /\ \E s \in Lines : Take(s, "coord_close")
    /\ inCoord' = FALSE
    /\ UNCHANGED <<cfgvars, pc, inHeader, inPropClassHeader, inLocalPropClassHeader,
                   propClassIndex, seqvars, typevars, coordvars, hdrvars,
                   geomvars, propvars, axisvars, voxel_runs, binvars>>

\* "if splitstr_arr[1] != "DEFAULT": ... if not self.nondefault_coords: return False"
CoordNameOutcomeContinues(name) == "loop"

CoordNameOutcome(name) ==
    IF name # "DEFAULT" /\ ~nondefault_coords THEN "ret_false" ELSE "loop"

\* NAME inside the coordinate system header.
CoordName ==
    /\ \E s \in Lines :
         /\ Take(s, "coord_name")
         /\ IF Len(s) < 2
            THEN /\ pc' = "raised"
                 /\ UNCHANGED <<coord_sys_name, usesDefaultCoords>>
            ELSE /\ coord_sys_name' = A(s, 1)
                 /\ usesDefaultCoords' = IF A(s, 1) # "DEFAULT" THEN FALSE
                                         ELSE usesDefaultCoords
                 /\ pc' = CoordNameOutcome(A(s, 1))
    /\ UNCHANGED <<cfgvars, ctxvars, seqvars, typevars, invert_zaxis, xyz_mult, xyz_unit,
                   hdrvars, geomvars, propvars, axisvars, voxel_runs, binvars>>

\* ZPOSITIVE DEPTH inside the coordinate system header.
ZPositive ==
    /\ \E s \in Lines : Take(s, "zpositive")
    /\ invert_zaxis' = TRUE
    /\ UNCHANGED <<cfgvars, pc, ctxvars, seqvars, typevars, xyz_mult, xyz_unit,
                   coord_sys_name, usesDefaultCoords, hdrvars, geomvars, propvars,
                   axisvars, voxel_runs, binvars>>

HeaderOpen ==
    /\ \E s \in Lines : Take(s, "header_open")
    /\ inHeader' = TRUE
    /\ UNCHANGED <<cfgvars, pc, inCoord, inPropClassHeader, inLocalPropClassHeader,
                   propClassIndex, seqvars, typevars, coordvars, hdrvars,
                   geomvars, propvars, axisvars, voxel_runs, binvars>>

\* As HeaderClose, with the brace closing every context it can close.
HeaderCloseAll ==
    /\ \E s \in Lines : Take(s, "header_close")
    /\ inHeader' = FALSE /\ inPropClassHeader' = FALSE /\ inLocalPropClassHeader' = FALSE
    /\ UNCHANGED <<cfgvars, pc, inCoord, propClassIndex, seqvars, typevars, coordvars,
                   hdrvars, geomvars, propvars, axisvars, voxel_runs, binvars>>

\* "elif inHeader and splitstr_arr[0] == "}": inHeader = False"
HeaderClose ==
    /\ \E s \in Lines : Take(s, "header_close")
    /\ inHeader' = FALSE
    /\ UNCHANGED <<cfgvars, pc, inCoord, inPropClassHeader, inLocalPropClassHeader,
                   propClassIndex, seqvars, typevars, coordvars, hdrvars,
                   geomvars, propvars, axisvars, voxel_runs, binvars>>

\* PROPERTY_CLASS_HEADER <idx> { opens a point property header,
\* PROPERTY_CLASS_HEADER <idx> <name> { registers and opens a binary one.
\* As RegisterClass, with a fresh PROPS object on every header.
RegisterClassAfresh(dict, index, name) ==
    [k \in DOMAIN dict \cup {index} |-> IF k = index THEN PROPS(name) ELSE dict[k]]

\* "if propClassIndex not in self.prop_dict:
\*      self.prop_dict[propClassIndex] = PROPS(splitstr_arr[2])"
RegisterClass(dict, index, name) ==
    IF index \in DOMAIN dict THEN dict ELSE Put(dict, index, PROPS(name))

PropClassHeader ==
    /\ \E s \in Lines :
         /\ Take(s, "prop_class_header")
         /\ IF Len(s) < 2
            THEN /\ pc' = "raised"
                 /\ UNCHANGED <<propClassIndex, inLocalPropClassHeader,
                                inPropClassHeader, prop_dict>>
            ELSE
            /\ propClassIndex' = A(s, 1)
            /\ IF Len(s) < 3
               THEN /\ pc' = "raised"
                    /\ UNCHANGED <<inLocalPropClassHeader, inPropClassHeader, prop_dict>>
               ELSE IF A(s, 2) = "{"
               THEN /\ inLocalPropClassHeader' = TRUE
                    /\ pc' = "loop"
                    /\ UNCHANGED <<inPropClassHeader, prop_dict>>
               ELSE IF Len(s) < 4
               THEN /\ pc' = "raised"
                    /\ UNCHANGED <<inLocalPropClassHeader, inPropClassHeader, prop_dict>>
               ELSE IF A(s, 3) = "{"
               THEN /\ prop_dict' = RegisterClass(prop_dict, A(s, 1), A(s, 2))
                    /\ inPropClassHeader' = TRUE
                    /\ pc' = "loop"
                    /\ UNCHANGED inLocalPropClassHeader
               ELSE /\ pc' = "exit"
                    /\ UNCHANGED <<inLocalPropClassHeader, inPropClassHeader, prop_dict>>
         /\ prop_order' = IF Len(s) >= 4 /\ A(s, 2) # "{" /\ A(s, 3) = "{"
                               /\ A(s, 1) \notin DOMAIN prop_dict
                            THEN Append(prop_order, A(s, 1)) ELSE prop_order
    /\ UNCHANGED <<cfgvars, inHeader, inCoord, seqvars, typevars, coordvars, hdrvars,
                   geomvars, local_props, axisvars, voxel_runs, files, opened, flagvars>>

(* --------------------------- header lines ----------------------------- *)
\* line_str.partition(':'): the key is the first token up to its colon, the
\* value the tokens after it.
StripColon(tok) ==
    CASE tok = "NAME:" -> "NAME"
      [] tok = "COLORMAP:" -> "COLORMAP"
      [] tok = "*COLORMAP*FLAG*COLORS:" -> "*COLORMAP*FLAG*COLORS"
      [] tok = "*SOLID*COLOR:" -> "*SOLID*COLOR"
      [] tok = "*ATOMS*COLOR:" -> "*ATOMS*COLOR"
      [] OTHER -> tok

HdrName(s) == StripColon(A(s, 0))
HdrValues(s) == Tail(s)
HdrValue(s) == IF Len(s) >= 2 THEN A(s, 1) ELSE ""

\* '*COLORMAP*' + colourmap_name + '*COLORS'
ColoursKey(name) ==
    IF name = "FLAG" THEN "*COLORMAP*FLAG*COLORS"
    ELSE IF name = "" THEN "*COLORMAP**COLORS"
    ELSE "*COLORMAP*?*COLORS"

\* The loop over the colour table "idx r g b idx r g b ...", from group g on.
RECURSIVE LutFrom(_, _, _)
LutFrom(v, idx, cmap) ==
    IF idx >= Len(v) /\ ~(v = <<>> /\ idx = 0) THEN [cmap |-> cmap, out |-> "ok"]
    ELSE IF idx + 3 < Len(v) /\ IsInt(A(v, idx)) /\ IsFloat(A(v, idx + 1))
            /\ IsFloat(A(v, idx + 2)) /\ IsFloat(A(v, idx + 3))
    THEN LutFrom(v, idx + 4,
                 Put(cmap, IntOf(A(v, idx)),
                     <<FloatOf(A(v, idx + 1)), FloatOf(A(v, idx + 2)), FloatOf(A(v, idx + 3))>>))
    ELSE IF HandleExcExits THEN [cmap |-> cmap, out |-> "exit"]
    ELSE LutFrom(v, idx + 4, cmap)

\* __parse_property_header(prop_obj, line_str)
parse_property_header(prop_obj, s) ==
    IF HdrName(s) = "COLORMAP"
    THEN [prop |-> [prop_obj EXCEPT !.colourmap_name = HdrValue(s)], out |-> "ok"]
    ELSE IF HdrName(s) \notin {"*COLORMAP*SIZE", "*COLORMAP*NBCOLORS", "HIGH_CLIP", "LOW_CLIP"}
            /\ HdrName(s) = ColoursKey(prop_obj.colourmap_name)
    THEN LET r == LutFrom(HdrValues(s), 0, prop_obj.colour_map)
         IN  [prop |-> [prop_obj EXCEPT !.colour_map = r.cmap], out |-> r.out]
    ELSE [prop |-> prop_obj, out |-> "ok"]

\* A line inside a binary property class header.
InPropClassHeaderLine ==
    /\ \E s \in Lines :
         /\ Take(s, "in_prop_class_header")
         /\ IF A(s, 0) = "}"
            THEN /\ inPropClassHeader' = FALSE
                 /\ propClassIndex' = ""
                 /\ pc' = "loop"
                 /\ UNCHANGED prop_dict
            ELSE IF propClassIndex \notin DOMAIN prop_dict
            THEN /\ pc' = "raised"
                 /\ UNCHANGED <<inPropClassHeader, propClassIndex, prop_dict>>
            ELSE LET r == parse_property_header(prop_dict[propClassIndex], s)
                 IN  /\ prop_dict' = [prop_dict EXCEPT ![propClassIndex] = r.prop]
                     /\ pc' = IF r.out = "exit" THEN "exit" ELSE "loop"
                     /\ UNCHANGED <<inPropClassHeader, propClassIndex>>
    /\ UNCHANGED <<cfgvars, inHeader, inCoord, inLocalPropClassHeader, seqvars, typevars,
                   coordvars, hdrvars, geomvars, local_props, axisvars, voxel_runs, binvars>>

\* A line inside a point property class header; local_props is keyed by
\* class name, so the header is parsed only if the index is a declared name.
InLocalPropClassHeaderLine ==
    /\ \E s \in Lines :
         /\ Take(s, "in_local_prop_class_header")
         /\ IF A(s, 0) = "}"
            THEN /\ inLocalPropClassHeader' = FALSE
                 /\ propClassIndex' = ""
                 /\ pc' = "loop"
                 /\ UNCHANGED local_props
            ELSE IF LocalIndex(local_props, propClassIndex) = 0
            THEN /\ pc' = "loop"
                 /\ UNCHANGED <<inLocalPropClassHeader, propClassIndex, local_props>>
            ELSE LET i == LocalIndex(local_props, propClassIndex)
                     r == parse_property_header(local_props[i], s)
                 IN  /\ local_props' = [local_props EXCEPT ![i] = r.prop]
                     /\ pc' = IF r.out = "exit" THEN "exit" ELSE "loop"
                     /\ UNCHANGED <<inLocalPropClassHeader, propClassIndex>>
    /\ UNCHANGED <<cfgvars, inHeader, inCoord, inPropClassHeader, seqvars, typevars,
                   coordvars, hdrvars, geomvars, prop_dict, axisvars, voxel_runs, binvars>>

\* int(value_str[1:3],16)/255 and so on for the '#RRGGBB' strings of the inputs.
HexColours == {"#FF0000", "#00FF00"}
HexOf(tok) == IF tok = "#FF0000" THEN <<1, 0, 0, 1>> ELSE <<0, 1, 0, 1>>
IsHash(tok) == tok \in HexColours \/ tok \in {"#GG0000", "#FF"}

\* The colour of a *SOLID*COLOR / *ATOMS*COLOR line: col the new rgba_tup
\* (NoneT: left as it was), exc whether __handle_exc was called.
HeaderColour(vals) ==
    IF vals = <<>> THEN [col |-> <<1, 1, 1, 1>>, exc |-> TRUE]
    ELSE IF IsHash(vals[1])
    THEN IF vals[1] \in HexColours THEN [col |-> HexOf(vals[1]), exc |-> FALSE]
         ELSE [col |-> <<1, 1, 1, 1>>, exc |-> TRUE]
    ELSE IF Len(vals) = 3
    THEN IF \A i \in 1..3 : IsFloat(vals[i])
         THEN [col |-> <<FloatOf(vals[1]), FloatOf(vals[2]), FloatOf(vals[3]), 1>>, exc |-> FALSE]
         ELSE [col |-> <<1, 1, 1, 1>>, exc |-> TRUE]
    ELSE IF Len(vals) = 4
    THEN IF \A i \in 1..4 : IsFloat(vals[i])
         THEN [col |-> <<FloatOf(vals[1]), FloatOf(vals[2]), FloatOf(vals[3]), FloatOf(vals[4])>>,
               exc |-> FALSE]
         ELSE [col |-> <<1, 1, 1, 1>>, exc |-> TRUE]
    ELSE [col |-> NoneT, exc |-> FALSE]

\* value_str.replace('/','-') on the names of the inputs.
SlashToHyphen(v) == IF v = "A/B" THEN "A-B" ELSE v

\* A line inside HEADER { ... }: the colour and the name.
InHeaderLine ==
    /\ \E s \in Lines :
         /\ Take(s, "in_header")
         /\ IF HdrName(s) \in {"*SOLID*COLOR", "*ATOMS*COLOR"}
            THEN LET c == HeaderColour(HdrValues(s))
                 IN  IF c.exc /\ HandleExcExits
                     THEN pc' = "exit" /\ UNCHANGED rgba_tup
                     ELSE /\ pc' = "loop"
                          /\ rgba_tup' = IF c.col = NoneT THEN rgba_tup ELSE c.col
            ELSE pc' = "loop" /\ UNCHANGED rgba_tup
         /\ header_name' = IF HdrName(s) = "NAME" THEN SlashToHyphen(HdrValue(s))
                           ELSE header_name
    /\ UNCHANGED <<cfgvars, ctxvars, seqvars, typevars, coordvars,
                   geomvars, propvars, axisvars, voxel_runs, binvars>>

(* ----------------------------- AXIS_UNIT ------------------------------ *)
\* .strip('"').strip(' ').strip("'") on the unit tokens of the inputs.
StripQuotes(tok) == IF tok = "'KM'" THEN "KM" ELSE tok

\* The loop "for idx in range(0,3)" from idx on: the multipliers and units
\* afterwards, and "IndexError" if the line runs out of tokens.
RECURSIVE AxisUnitFrom(_, _, _, _)
AxisUnitFrom(s, idx, mult, unit) ==
    IF idx >= 3 THEN [mult |-> mult, unit |-> unit, out |-> "ok"]
    ELSE IF idx + 1 >= Len(s) THEN [mult |-> mult, unit |-> unit, out |-> "IndexError"]
    ELSE LET unit_str == StripQuotes(A(s, idx + 1)) IN
         IF unit_str = "KM"
         THEN AxisUnitFrom(s, idx + 1, [mult EXCEPT ![idx + 1] = 1000], unit)
         ELSE IF unit_str \notin {"M", "UNITLESS", "NUMBER", "MS"}
         THEN AxisUnitFrom(s, idx + 1, mult, unit)
         ELSE AxisUnitFrom(s, idx + 1, mult, [unit EXCEPT ![idx + 1] = unit_str])

AxisUnit ==
    /\ \E s \in Lines :
         /\ Take(s, "axis_unit")
         /\ LET r == AxisUnitFrom(s, 0, xyz_mult, xyz_unit)
            IN  /\ xyz_mult' = r.mult
                /\ xyz_unit' = r.unit
                /\ pc' = IF r.out = "IndexError" THEN "raised" ELSE "loop"
    /\ UNCHANGED <<cfgvars, ctxvars, seqvars, typevars, invert_zaxis, coord_sys_name,
                   usesDefaultCoords, hdrvars, geomvars, propvars, axisvars, voxel_runs, binvars>>

(* ------------------- PROPERTIES, ESIZES, NO_DATA_VALUES --------------- *)
\* As Properties, with every declaration line declaring its names anew.
PropertiesAlways ==
    /\ \E s \in Lines :
         /\ Take(s, "properties")
         /\ local_props' = DeclareProps(local_props, Tail(s))
    /\ UNCHANGED <<cfgvars, pc, ctxvars, seqvars, typevars, coordvars, hdrvars,
                   geomvars, prop_dict, axisvars, voxel_runs, binvars>>

\* PROPERTIES / PROPERTY_CLASSES: the names are declared only while
\* local_props is empty.
Properties ==
    /\ \E s \in Lines :
         /\ Take(s, "properties")
         /\ local_props' = IF Len(local_props) = 0 THEN DeclareProps(local_props, Tail(s))
                           ELSE local_props
    /\ UNCHANGED <<cfgvars, pc, ctxvars, seqvars, typevars, coordvars, hdrvars,
                   geomvars, prop_dict, axisvars, voxel_runs, binvars>>

\* As EsizesFrom, with the first size given to every property.
EsizesSameForAll(s, props, i) ==
    IF Len(s) >= 2 /\ IsInt(A(s, 1))
    THEN [props |-> [j \in 1..Len(props) |-> [props[j] EXCEPT !.data_sz = IntOf(A(s, 1))]],
          out |-> "ok"]
    ELSE [props |-> props, out |-> "ok"]

\* The ESIZES loop from property i on (token idx = i).
RECURSIVE EsizesFrom(_, _, _)
EsizesFrom(s, props, i) ==
    IF i > Len(props) THEN [props |-> props, out |-> "ok"]
    ELSE IF i < Len(s) /\ IsInt(A(s, i))
    THEN EsizesFrom(s, [props EXCEPT ![i].data_sz = IntOf(A(s, i))], i + 1)
    ELSE IF HandleExcExits THEN [props |-> props, out |-> "exit"]
    ELSE EsizesFrom(s, props, i + 1)

Esizes ==
    /\ \E s \in Lines :
         /\ Take(s, "esizes")
         /\ LET r == EsizesFrom(s, local_props, 1)
            IN  /\ local_props' = r.props
                /\ pc' = IF r.out = "exit" THEN "exit" ELSE "loop"
    /\ UNCHANGED <<cfgvars, ctxvars, seqvars, typevars, coordvars, hdrvars,
                   geomvars, prop_dict, axisvars, voxel_runs, binvars>>

\* The NO_DATA_VALUES loop from property i on.
RECURSIVE NoDataFrom(_, _, _)
NoDataFrom(s, props, i) ==
    IF i > Len(props) THEN [props |-> props, out |-> "ok"]
    ELSE IF i >= Len(s)
    THEN IF HandleExcExits THEN [props |-> props, out |-> "exit"]
         ELSE NoDataFrom(s, props, i + 1)
    ELSE LET r == parse_float(A(s, i), NoneT) IN
         IF r.exc /\ HandleExcExits THEN [props |-> props, out |-> "exit"]
         ELSE NoDataFrom(s, IF r.conv THEN [props EXCEPT ![i].no_data_marker = Some(r.fp)]
                            ELSE props, i + 1)

NoDataValues ==
    /\ \E s \in Lines :
         /\ Take(s, "no_data_values")
         /\ LET r == NoDataFrom(s, local_props, 1)
            IN  /\ local_props' = r.props
                /\ pc' = IF r.out = "exit" THEN "exit" ELSE "loop"
    /\ UNCHANGED <<cfgvars, ctxvars, seqvars, typevars, coordvars, hdrvars,
                   geomvars, prop_dict, axisvars, voxel_runs, binvars>>

(* ------------------------- VRTX, ATOM, TRGL, SEG ---------------------- *)
VRTXRenumbered(n, xyz) == [n |-> Len(vrtx_arr) + 1, xyz |-> xyz]

VRTX(n, xyz) == [n |-> n, xyz |-> xyz]
ATOM(n, v) == [n |-> n, v |-> v]
\* As TRGL, with the vertex numbers turned into zero-based indices.
TRGLIndexed(n, abc) == [n |-> n, abc |-> <<abc[1] - 1, abc[2] - 1, abc[3] - 1>>]
TRGL(n, abc) == [n |-> n, abc |-> abc]
SEG(n, ab) == [n |-> n, ab |-> ab]

InvertZNever(xyz) == xyz

\* "if self.invert_zaxis: z_flt = -z_flt"
InvertZ(xyz) == IF invert_zaxis THEN <<xyz[1], xyz[2], 0 - xyz[3]>> ELSE xyz

\* VRTX / PVRTX: sequence number, scaled and possibly inverted position,
\* and for PVRTX the property values that follow.
VrtxLine ==
    /\ \E s \in Lines :
         /\ Take(s, "vrtx")
         /\ seq_no_prev' = seq_no
         /\ IF Len(s) < 5 \/ ~IsInt(A(s, 1))
            THEN \* IndexError or ValueError inside the try: __handle_exc
                 /\ pc' = IF HandleExcExits THEN "exit" ELSE "loop"
                 /\ seq_no' = seq_no
                 /\ UNCHANGED <<vrtx_arr, local_props>>
            ELSE LET r == parse_XYZ(TRUE, A(s, 2), A(s, 3), A(s, 4), TRUE) IN
                 /\ seq_no' = IntOf(A(s, 1))
                 /\ IF ~r.ok
                    THEN /\ pc' = IF r.exc /\ HandleExcExits THEN "exit" ELSE "loop"
                         /\ UNCHANGED <<vrtx_arr, local_props>>
                    ELSE LET xyz == InvertZ(r.xyz) IN
                         /\ vrtx_arr' = Append(vrtx_arr, VRTX(IntOf(A(s, 1)), xyz))
                         /\ IF A(s, 0) = "PVRTX"
                            THEN LET q == parse_props(s, xyz, FALSE) IN
                                 /\ local_props' = q.props
                                 /\ pc' = IF q.out = "exit" THEN "exit"
                                          ELSE IF q.out = "IndexError" THEN "raised"
                                          ELSE "loop"
                            ELSE pc' = "loop" /\ UNCHANGED local_props
    /\ UNCHANGED <<cfgvars, ctxvars, typevars, coordvars, hdrvars,
                   atom_arr, trgl_arr, seg_arr, prop_dict, axisvars, voxel_runs, binvars>>

\* An atom whose vertex is not defined yet: logger.error and sys.exit(1).
AtomMissingVertexIgnored == "loop"

AtomMissingVertex == "exit"

\* ATOM / PATOM: sequence number and the vertex it stands for.
AtomLine ==
    /\ \E s \in Lines :
         /\ Take(s, "atom")
         /\ seq_no_prev' = seq_no
         /\ IF Len(s) < 3 \/ ~IsInt(A(s, 1)) \/ ~IsInt(A(s, 2))
            THEN /\ pc' = IF HandleExcExits THEN "exit" ELSE "loop"
                 /\ seq_no' = seq_no
                 /\ UNCHANGED <<atom_arr, local_props>>
            ELSE LET n == IntOf(A(s, 1))
                     v_num == IntOf(A(s, 2))
                 IN
                 /\ seq_no' = n
                 /\ IF ~check_vertex(v_num)
                    THEN /\ pc' = AtomMissingVertex
                         /\ UNCHANGED <<atom_arr, local_props>>
                    ELSE /\ atom_arr' = Append(atom_arr, ATOM(n, v_num))
                         /\ IF A(s, 0) = "PATOM"
                            THEN LET vert_dict == make_vertex_dict(vrtx_arr, atom_arr')
                                     at == vert_dict[v_num] + 1
                                 IN  IF at > Len(vrtx_arr)
                                     THEN /\ pc' = IF HandleExcExits THEN "exit" ELSE "loop"
                                          /\ UNCHANGED local_props
                                     ELSE LET q == parse_props(s, vrtx_arr[at].xyz, TRUE) IN
                                          /\ local_props' = q.props
                                          /\ pc' = IF q.out = "exit" THEN "exit"
                                                   ELSE IF q.out = "IndexError" /\ HandleExcExits
                                                   THEN "exit" ELSE "loop"
                            ELSE pc' = "loop" /\ UNCHANGED local_props
    /\ UNCHANGED <<cfgvars, ctxvars, typevars, coordvars, hdrvars,
                   vrtx_arr, trgl_arr, seg_arr, prop_dict, axisvars, voxel_runs, binvars>>

\* TRGL: the triangle's numbers come from tokens 1, 2 and 3.
TrglLine ==
    /\ \E s \in Lines :
         /\ Take(s, "trgl")
         /\ seq_no_prev' = seq_no
         /\ IF Len(s) < 4 \/ ~IsInt(A(s, 1))
            THEN /\ pc' = IF HandleExcExits THEN "exit" ELSE "loop"
                 /\ seq_no' = seq_no
                 /\ UNCHANGED trgl_arr
            ELSE LET r == parse_XYZ(FALSE, A(s, 1), A(s, 2), A(s, 3), FALSE) IN
                 /\ seq_no' = IntOf(A(s, 1))
                 /\ IF ~r.ok
                    THEN /\ pc' = IF r.exc /\ HandleExcExits THEN "exit" ELSE "loop"
                         /\ UNCHANGED trgl_arr
                    ELSE /\ trgl_arr' = Append(trgl_arr, TRGL(IntOf(A(s, 1)), r.xyz))
                         /\ pc' = "loop"
    /\ UNCHANGED <<cfgvars, ctxvars, typevars, coordvars, hdrvars,
                   vrtx_arr, atom_arr, seg_arr, propvars, axisvars, voxel_runs, binvars>>

\* SEG: two vertex numbers under the current sequence number.
SegLine ==
    /\ \E s \in Lines :
         /\ Take(s, "seg")
         /\ IF Len(s) < 3 \/ ~IsInt(A(s, 1)) \/ ~IsInt(A(s, 2))
            THEN \* __handle_exc, and if it returns "seq_no = seq_no_prev"
                 /\ pc' = IF HandleExcExits THEN "exit" ELSE "loop"
                 /\ seq_no' = IF HandleExcExits THEN seq_no ELSE seq_no_prev
                 /\ UNCHANGED seg_arr
            ELSE /\ seg_arr' = Append(seg_arr, SEG(seq_no, <<IntOf(A(s, 1)), IntOf(A(s, 2))>>))
                 /\ pc' = "loop"
                 /\ UNCHANGED seq_no
    /\ UNCHANGED <<cfgvars, ctxvars, seq_no_prev, typevars, coordvars, hdrvars,
                   vrtx_arr, atom_arr, trgl_arr, propvars, axisvars, voxel_runs, binvars>>

(* ------------------------------ PROP_* -------------------------------- *)
\* "self.prop_dict[splitstr_arr[1]].<field> = value": the table afterwards,
\* or the KeyError of a class index that was never registered.
SetProp(s, field, value) ==
    IF A(s, 1) \in DOMAIN prop_dict
    THEN [dict |-> [prop_dict EXCEPT ![A(s, 1)][field] = value], out |-> "loop"]
    ELSE [dict |-> prop_dict, out |-> "raised"]

\* The outcome of one PROP_* line: the table afterwards and where control goes.
PropFileEffect(s) ==
    IF Len(s) < 3 THEN [dict |-> prop_dict, out |-> "raised"]
    ELSE SetProp(s, "file_name", A(s, 2))

PropEsizeEffect(s) ==
    IF Len(s) < 3 \/ ~IsInt(A(s, 2))
    THEN [dict |-> prop_dict, out |-> IF HandleExcExits THEN "exit" ELSE "loop"]
    ELSE SetProp(s, "data_sz", IntOf(A(s, 2)))

PropStorageTypeEffect(s) ==
    IF Len(s) < 3 THEN [dict |-> prop_dict, out |-> "raised"]
    ELSE IF A(s, 2) = "OCTET" THEN SetProp(s, "data_type", "b")
    ELSE IF A(s, 2) = "SHORT" THEN SetProp(s, "data_type", "h")
    ELSE [dict |-> prop_dict, out |-> "exit"]

PropSignedEffect(s) ==
    IF Len(s) < 3 THEN [dict |-> prop_dict, out |-> "raised"]
    ELSE SetProp(s, "signed_int", A(s, 2) = "1")

\* PROP_ETYPE must be IEEE, PROP_EFORMAT must be RAW.
PropEncodingOutcome(s, supported) ==
    IF Len(s) < 3 THEN "raised"
    ELSE IF A(s, 2) # supported THEN "exit"
    ELSE "loop"

\* As PropOffsetOutcome, with any offset accepted.
PropOffsetAccepted(s) == IF Len(s) < 3 \/ ~IsInt(A(s, 2)) THEN "raised" ELSE "loop"

\* "if int(splitstr_arr[2]) != 0: sys.exit(1)", the int() outside any try.
PropOffsetOutcome(s) ==
    IF Len(s) < 3 \/ ~IsInt(A(s, 2)) THEN "raised"
    ELSE IF IntOf(A(s, 2)) # 0 THEN "exit"
    ELSE "loop"

PropNoDataValueEffect(s) ==
    IF Len(s) < 3 THEN [dict |-> prop_dict, out |-> "raised"]
    ELSE LET r == parse_float(A(s, 2), NoneT) IN
         IF r.exc /\ HandleExcExits THEN [dict |-> prop_dict, out |-> "exit"]
         ELSE IF r.conv THEN SetProp(s, "no_data_marker", Some(r.fp))
         ELSE [dict |-> prop_dict, out |-> "loop"]

\* A PROP_* line that writes a field of a registered binary property class.
PropSetter(r) ==
    /\ prop_dict' = r.dict
    /\ pc' = r.out
    /\ UNCHANGED <<cfgvars, ctxvars, seqvars, typevars, coordvars, hdrvars,
                   geomvars, local_props, axisvars, voxel_runs, binvars>>

PropFile == \E s \in Lines : Take(s, "prop_file") /\ PropSetter(PropFileEffect(s))

PropEsize == \E s \in Lines : Take(s, "prop_esize") /\ PropSetter(PropEsizeEffect(s))

PropStorageType ==
    \E s \in Lines : Take(s, "prop_storage_type")
                     /\ PropSetter(PropStorageTypeEffect(s))

PropSigned == \E s \in Lines : Take(s, "prop_signed") /\ PropSetter(PropSignedEffect(s))

PropNoDataValue ==
    \E s \in Lines : Take(s, "prop_no_data_value")
                     /\ PropSetter(PropNoDataValueEffect(s))

\* A PROP_* line that only checks the encoding.
PropCheck(out) ==
    /\ pc' = out
    /\ UNCHANGED <<cfgvars, ctxvars, seqvars, typevars, coordvars, hdrvars,
                   geomvars, propvars, axisvars, voxel_runs, binvars>>

PropEtype == \E s \in Lines : Take(s, "prop_etype") /\ PropCheck(PropEncodingOutcome(s, "IEEE"))

PropEformat == \E s \in Lines : Take(s, "prop_eformat") /\ PropCheck(PropEncodingOutcome(s, "RAW"))

PropOffset == \E s \in Lines : Take(s, "prop_offset") /\ PropCheck(PropOffsetOutcome(s))

(* ------------------------------ AXIS_* -------------------------------- *)
\* The convert argument each AXIS_* line passes to __parse_XYZ: AXIS_O takes
\* the default (True), the others pass False.
AxisConvertAll(kw) == TRUE

AxisConvert(kw) == kw = "AXIS_O"

\* AXIS_O, AXIS_U, AXIS_V, AXIS_W, AXIS_MIN, AXIS_MAX (floats) and AXIS_N (ints).
AxisLine ==
    /\ \E s \in Lines :
         /\ Take(s, "axis")
         /\ IF Len(s) < 4
            THEN pc' = "raised" /\ UNCHANGED axisvars
            ELSE LET kw == A(s, 0)
                     r == parse_XYZ(kw # "AXIS_N", A(s, 1), A(s, 2), A(s, 3), AxisConvert(kw))
                     set(k, old) == IF kw = k /\ r.ok THEN r.xyz ELSE old
                 IN  /\ pc' = IF r.exc /\ HandleExcExits THEN "exit" ELSE "loop"
                     /\ axis_origin' = set("AXIS_O", axis_origin)
                     /\ axis_u' = set("AXIS_U", axis_u)
                     /\ axis_v' = set("AXIS_V", axis_v)
                     /\ axis_w' = set("AXIS_W", axis_w)
                     /\ vol_dims' = set("AXIS_N", vol_dims)
                     /\ axis_min' = set("AXIS_MIN", axis_min)
                     /\ axis_max' = set("AXIS_MAX", axis_max)
    /\ UNCHANGED <<cfgvars, ctxvars, seqvars, typevars, coordvars, hdrvars,
                   geomvars, propvars, voxel_runs, binvars>>

(* -------------------------- FLAGS_*, REGION --------------------------- *)
\* __parse_int(int_str): ok is the boolean returned, exc whether
\* __handle_exc was called on the way.
parse_int(int_str) ==
    IF IsInt(int_str) THEN [ok |-> TRUE, num |-> IntOf(int_str), exc |-> FALSE]
    ELSE [ok |-> FALSE, num |-> 0, exc |-> TRUE]

\* FLAGS_ARRAY_LENGTH, FLAGS_BIT_LENGTH, FLAGS_ESIZE and FLAGS_OFFSET.
FlagsInt ==
    /\ \E s \in Lines :
         /\ Take(s, "flags_int")
         /\ IF Len(s) < 2
            THEN /\ pc' = "raised"
                 /\ UNCHANGED <<flags_array_length, flags_bit_length, flags_bit_size,
                                flags_offset>>
            ELSE LET kw == A(s, 0)
                     r == parse_int(A(s, 1))
                     set(k, old) == IF kw = k /\ r.ok THEN r.num ELSE old
                 IN  /\ pc' = IF r.exc /\ HandleExcExits THEN "exit" ELSE "loop"
                     /\ flags_array_length' = set("FLAGS_ARRAY_LENGTH", flags_array_length)
                     /\ flags_bit_length' = set("FLAGS_BIT_LENGTH", flags_bit_length)
                     /\ flags_bit_size' = set("FLAGS_ESIZE", flags_bit_size)
                     /\ flags_offset' = set("FLAGS_OFFSET", flags_offset)
    /\ UNCHANGED <<cfgvars, ctxvars, seqvars, typevars, coordvars, hdrvars,
                   geomvars, propvars, axisvars, voxel_runs, files, prop_order, opened,
                   flags_file, region_dict, flags_dict>>

\* FLAGS_FILE: os.path.join(src_dir, splitstr_arr_raw[1]).
FlagsFile ==
    /\ \E s \in Lines :
         /\ Take(s, "flags_file")
         /\ IF Len(s) < 2
            THEN pc' = "raised" /\ UNCHANGED flags_file
            ELSE pc' = "loop" /\ flags_file' = A(s, 1)
    /\ UNCHANGED <<cfgvars, ctxvars, seqvars, typevars, coordvars, hdrvars,
                   geomvars, propvars, axisvars, voxel_runs, files, prop_order, opened,
                   flags_array_length, flags_bit_length, flags_bit_size, flags_offset,
                   region_dict, flags_dict>>

\* REGION name bit: "self.region_dict[splitstr_arr[2]] = splitstr_arr[1]".
Region ==
    /\ \E s \in Lines :
         /\ Take(s, "region")
         /\ IF Len(s) < 3
            THEN pc' = "raised" /\ UNCHANGED region_dict
            ELSE pc' = "loop" /\ region_dict' = Put(region_dict, A(s, 2), A(s, 1))
    /\ UNCHANGED <<cfgvars, ctxvars, seqvars, typevars, coordvars, hdrvars,
                   geomvars, propvars, axisvars, voxel_runs, files, prop_order, opened,
                   flags_array_length, flags_bit_length, flags_bit_size, flags_offset,
                   flags_file, flags_dict>>

(* --------------------------- end of the text -------------------------- *)
\* "Calculate max and min of properties": every point property gets the
\* initial statistics, then the extremes of the first components of its values.
MinOf(S) == CHOOSE m \in S : \A v \in S : m <= v
MaxOf(S) == CHOOSE m \in S : \A v \in S : m >= v

\* As PointStats, from the last component of every value.
PointStatsLast(p) ==
    LET last_val_list == {p.data[c][Len(p.data[c])] : c \in DOMAIN p.data}
    IN  IF last_val_list = {} THEN [min |-> FloatMax, max |-> 0 - FloatMax]
        ELSE [min |-> MinOf(last_val_list), max |-> MaxOf(last_val_list)]

PointStats(p) ==
    LET first_val_list == {p.data[c][1] : c \in DOMAIN p.data}
    IN  IF first_val_list = {} THEN [min |-> FloatMax, max |-> 0 - FloatMax]
        ELSE [min |-> MinOf(first_val_list), max |-> MaxOf(first_val_list)]

WithPointStats(props) == [i \in 1..Len(props) |-> [props[i] EXCEPT !.data_stats = PointStats(props[i])]]

\* The placeholder suffix '@@': the name tried with '.vo' appended.
EndsAtAt(n) == n = "F3@@"
WithVo(n) == IF n = "F3@@" THEN "F3@@.vo" ELSE n

\* PROPS.make_numpy_dtype: the byte width of one element of the dtype, 0 for
\* a dtype string numpy does not understand ('>f1', '>f3', ...).
ItemSize(p) ==
    IF p.data_type = "h" THEN 2
    ELSE IF p.data_type = "b" THEN 1
    ELSE IF p.data_sz \in {2, 4, 8} THEN p.data_sz
    ELSE 0

\* Big-endian IEEE single-precision groups of the files, and their values.
Float32Table ==
    [g \in {<<0, 0, 0, 0>>, <<63, 128, 0, 0>>, <<64, 0, 0, 0>>, <<64, 64, 0, 0>>,
            <<64, 224, 0, 0>>, <<73, 1, 3, 48>>, <<201, 5, 6, 112>>} |->
        IF g = <<0, 0, 0, 0>> THEN 0 ELSE IF g = <<63, 128, 0, 0>> THEN 1
        ELSE IF g = <<64, 0, 0, 0>> THEN 2 ELSE IF g = <<64, 64, 0, 0>> THEN 3
        ELSE IF g = <<64, 224, 0, 0>> THEN 7
        ELSE IF g = <<73, 1, 3, 48>> THEN 528435 ELSE 0 - 544871]

\* The value of one element: an unsigned or two's-complement big-endian
\* integer for 'b' / 'h', an IEEE float otherwise.
ElemValue(g, p) ==
    IF p.data_type = "b"
    THEN IF p.signed_int /\ g[1] >= 128 THEN g[1] - 256 ELSE g[1]
    ELSE IF p.data_type = "h"
    THEN LET u == g[1] * 256 + g[2]
         IN  IF p.signed_int /\ u >= 32768 THEN u - 65536 ELSE u
    ELSE Float32Table[g]

\* numpy.fromfile(file_name, dtype=dt): the whole elements the bytes hold.
FromFile(bytes, p) ==
    LET w == ItemSize(p)
    IN  [i \in 1..(Len(bytes) \div w) |-> ElemValue(SubSeq(bytes, (i - 1) * w + 1, i * w), p)]

\* As DecodeFrom, with the no-data marker never looked at.
RECURSIVE DecodeAllFrom(_, _, _, _, _)
DecodeAllFrom(f_arr, fl_idx, p, data, stats) ==
    LET nx == vol_dims[1]
        ny == vol_dims[2]
        nz == vol_dims[3]
    IN  IF fl_idx >= nx * ny * nz THEN [data |-> data, stats |-> stats, out |-> "ok"]
        ELSE IF fl_idx >= Len(f_arr) THEN [data |-> data, stats |-> stats, out |-> "IndexError"]
        ELSE
        LET cell == <<fl_idx % nx, (fl_idx \div nx) % ny, fl_idx \div (nx * ny)>>
            fp == f_arr[fl_idx + 1]
            d2 == [data EXCEPT ![cell] = fp]
            s2 == [min |-> IF fp < stats.min THEN fp ELSE stats.min,
                   max |-> IF fp > stats.max THEN fp ELSE stats.max]
        IN  IF NoneT \in {axis_origin, axis_u, axis_v, axis_w}
            THEN [data |-> d2, stats |-> s2, out |-> "TypeError"]
            ELSE DecodeAllFrom(f_arr, fl_idx + 1, p, d2, s2)

\* The decoding loops "for z ... for y ... for x", from linear index fl_idx
\* on: the array and statistics afterwards, "IndexError" past the end of
\* f_arr, "TypeError" when a corner of the volume is needed and is None.
RECURSIVE DecodeFrom(_, _, _, _, _)
DecodeFrom(f_arr, fl_idx, p, data, stats) ==
    LET nx == vol_dims[1]
        ny == vol_dims[2]
        nz == vol_dims[3]
    IN  IF fl_idx >= nx * ny * nz THEN [data |-> data, stats |-> stats, out |-> "ok"]
        ELSE IF fl_idx >= Len(f_arr) THEN [data |-> data, stats |-> stats, out |-> "IndexError"]
        ELSE
        LET cell == <<fl_idx % nx, (fl_idx \div nx) % ny, fl_idx \div (nx * ny)>>
            fp == f_arr[fl_idx + 1]
            converted == ~(p.no_data_marker # NoneT /\ fp = p.no_data_marker[1])
        IN  IF ~converted THEN DecodeFrom(f_arr, fl_idx + 1, p, data, stats)
            ELSE LET d2 == [data EXCEPT ![cell] = fp]
                     s2 == [min |-> IF fp < stats.min THEN fp ELSE stats.min,
                            max |-> IF fp > stats.max THEN fp ELSE stats.max]
                 IN  IF NoneT \in {axis_origin, axis_u, axis_v, axis_w}
                     THEN [data |-> d2, stats |-> s2, out |-> "TypeError"]
                     ELSE DecodeFrom(f_arr, fl_idx + 1, p, d2, s2)

\* As ReadClass, with the file size never compared.
ReadClassUnchecked(p) ==
    IF p.file_name \notin DOMAIN files \/ vol_dims = NoneT
    THEN [name |-> p.file_name, prop |-> p, out |-> "exit"]
    ELSE [name |-> p.file_name,
          prop |-> [p EXCEPT !.data = [c \in (0..(vol_dims[1] - 1)) \X (0..(vol_dims[2] - 1))
                                              \X (0..(vol_dims[3] - 1)) |-> 0]],
          out |-> "ok"]

\* The body of the loop over prop_dict for one property class: the file whose
\* size was asked (name), the class afterwards and how the body ended.
ReadClass(p) ==
    LET name == IF p.file_name \notin DOMAIN files /\ EndsAtAt(p.file_name)
                   /\ WithVo(p.file_name) \in DOMAIN files
                THEN WithVo(p.file_name) ELSE p.file_name
        q == [p EXCEPT !.file_name = name]
    IN  IF name \notin DOMAIN files THEN [name |-> name, prop |-> q, out |-> "exit"]
        ELSE IF vol_dims = NoneT THEN [name |-> name, prop |-> q, out |-> "raised"]
        ELSE IF Len(files[name]) # p.data_sz * vol_dims[1] * vol_dims[2] * vol_dims[3]
        THEN [name |-> name, prop |-> q, out |-> "exit"]
        ELSE
        LET cells == (0..(vol_dims[1] - 1)) \X (0..(vol_dims[2] - 1)) \X (0..(vol_dims[3] - 1))
            zeros == [c \in cells |-> 0]
        IN  IF ItemSize(p) = 0
            THEN [name |-> name, prop |-> [q EXCEPT !.data = zeros], out |-> "raised"]
            ELSE
            LET r == DecodeFrom(FromFile(files[name], p), 0, p, zeros,
                                [min |-> FloatMax, max |-> 0 - FloatMax])
            IN  [name |-> name,
                 prop |-> [q EXCEPT !.data = r.data, !.data_stats = r.stats],
                 out |-> IF r.out = "ok" THEN "ok" ELSE "raised"]

\* "for file_idx, prop_obj in self.prop_dict.items()", from the i-th key on.
RECURSIVE ReadFrom(_, _, _)
ReadFrom(i, dict, opn) ==
    IF i > Len(prop_order) THEN [dict |-> dict, opened |-> opn, out |-> "ret_true"]
    ELSE LET k == prop_order[i]
             r == ReadClass(dict[k])
             d2 == [dict EXCEPT ![k] = r.prop]
             o2 == Append(opn, r.name)
         IN  IF r.out = "ok" THEN ReadFrom(i + 1, d2, o2)
             ELSE [dict |-> d2, opened |-> o2, out |-> r.out]

\* str(cnt) for the bit numbers of a record of one or two bytes.
StrOfBit ==
    <<"0", "1", "2", "3", "4", "5", "6", "7", "8", "9", "10", "11", "12", "13", "14", "15">>

\* The character of '{0:08b}'.format(byte) for bit number n is '1'.
BitIsSet(byte, n) == (byte \div (2 ^ n)) % 2 = 1

\* As RegionFrom, with the first byte of the record holding the highest bit
\* numbers.
RECURSIVE RegionBigEndianFrom(_, _, _)
RegionBigEndianFrom(rec, cnt, key) ==
    IF cnt < 0 THEN key
    ELSE RegionBigEndianFrom(rec, cnt - 1,
             IF StrOfBit[cnt + 1] \in DOMAIN region_dict
                /\ BitIsSet(rec[Len(rec) - (cnt \div 8)], cnt % 8)
             THEN region_dict[StrOfBit[cnt + 1]] ELSE key)

\* As RegionFrom, from bit number 0 upwards.
RECURSIVE RegionUpFrom(_, _, _)
RegionUpFrom(rec, cnt, key) ==
    IF cnt < 0 THEN key
    ELSE LET n == Len(rec) * 8 - 1 - cnt IN
         RegionUpFrom(rec, cnt - 1,
             IF StrOfBit[n + 1] \in DOMAIN region_dict /\ BitIsSet(rec[(n \div 8) + 1], n % 8)
             THEN region_dict[StrOfBit[n + 1]] ELSE key)

\* "for bit in bit_mask", from bit number cnt down to 0: the name the cell is
\* left with (key, None while no registered bit was set).  bit_mask runs from
\* the last byte of the record to the first, each byte most significant bit
\* first, so bit number n sits in byte n div 8 of the record.
RECURSIVE RegionFrom(_, _, _)
RegionFrom(rec, cnt, key) ==
    IF cnt < 0 THEN key
    ELSE RegionFrom(rec, cnt - 1,
             IF StrOfBit[cnt + 1] \in DOMAIN region_dict /\ BitIsSet(rec[(cnt \div 8) + 1], cnt % 8)
             THEN region_dict[StrOfBit[cnt + 1]] ELSE key)

\* numpy.fromfile(flags_file, dtype=('B', flags_bit_size)): the records.
FlagRecords(bytes) ==
    [i \in 1..(Len(bytes) \div flags_bit_size) |->
        SubSeq(bytes, (i - 1) * flags_bit_size + 1, i * flags_bit_size)]

\* The flag loops "for z ... for y ... for x" from cell number n and record
\* f_idx on: the region map afterwards, "raised" for the IndexError of a
\* record that is not there.
RECURSIVE FlagsFrom(_, _, _, _)
FlagsFrom(f_arr, n, f_idx, fd) ==
    LET nx == vol_dims[1]
        ny == vol_dims[2]
        nz == vol_dims[3]
    IN  IF n >= nx * ny * nz THEN [flags |-> fd, out |-> "ret_true"]
        ELSE IF f_idx >= Len(f_arr) THEN [flags |-> fd, out |-> "raised"]
        ELSE
        LET cell == <<n % nx, (n \div nx) % ny, n \div (nx * ny)>>
            key == RegionFrom(f_arr[f_idx + 1], flags_bit_size * 8 - 1, None)
        IN  FlagsFrom(f_arr, n + 1, f_idx + 1, IF key = None THEN fd ELSE Put(fd, cell, key))

\* As ReadFlags, with the declared element count never compared.
ReadFlagsUncounted ==
    IF flags_file = ""
    THEN [flags |-> flags_dict, name |-> flags_file, out |-> "ret_true"]
    ELSE IF flags_file \notin DOMAIN files
    THEN [flags |-> flags_dict, name |-> flags_file, out |-> "ret_false"]
    ELSE IF Len(files[flags_file]) # flags_bit_size * vol_dims[1] * vol_dims[2] * vol_dims[3]
    THEN [flags |-> flags_dict, name |-> flags_file, out |-> "exit"]
    ELSE IF flags_bit_size = 0
    THEN [flags |-> flags_dict, name |-> flags_file, out |-> "raised"]
    ELSE LET r == FlagsFrom(FlagRecords(files[flags_file]), 0, flags_offset, flags_dict)
         IN  [flags |-> r.flags, name |-> flags_file, out |-> r.out]

\* "Open up flags file and look for regions": the region map and the flags
\* file name afterwards, and how the part ended.
ReadFlags ==
    IF flags_file = ""
    THEN [flags |-> flags_dict, name |-> flags_file, out |-> "ret_true"]
    ELSE IF flags_array_length # vol_dims[1] * vol_dims[2] * vol_dims[3]
    THEN [flags |-> flags_dict, name |-> flags_file, out |-> "ret_false"]
    ELSE
    LET name == IF flags_file \notin DOMAIN files /\ EndsAtAt(flags_file)
                   /\ WithVo(flags_file) \in DOMAIN files
                THEN WithVo(flags_file) ELSE flags_file
    IN  IF name \notin DOMAIN files
        THEN [flags |-> flags_dict, name |-> name, out |-> "ret_false"]
        ELSE IF Len(files[name]) # flags_bit_size * vol_dims[1] * vol_dims[2] * vol_dims[3]
        THEN [flags |-> flags_dict, name |-> name, out |-> "exit"]
        ELSE IF flags_bit_size = 0
        THEN [flags |-> flags_dict, name |-> name,
              out |-> IF vol_dims[1] * vol_dims[2] * vol_dims[3] = 0 THEN "ret_true" ELSE "raised"]
        ELSE LET r == FlagsFrom(FlagRecords(files[name]), 0, flags_offset, flags_dict)
             IN  [flags |-> r.flags, name |-> name, out |-> r.out]

\* The property classes, then the flags part if every class was read.
ReadAll ==
    LET r == ReadFrom(1, prop_dict, opened) IN
    IF r.out # "ret_true"
    THEN [dict |-> r.dict, opened |-> r.opened, flags |-> flags_dict,
          flags_file |-> flags_file, out |-> r.out]
    ELSE LET f == ReadFlags
         IN  [dict |-> r.dict, opened |-> r.opened, flags |-> f.flags,
              flags_file |-> f.name, out |-> f.out]

\* As read_voxel_files, for a file of any type.
read_voxel_filesAnyType ==
    IF DOMAIN prop_dict # {}
    THEN ReadAll
    ELSE [dict |-> prop_dict, opened |-> opened, flags |-> flags_dict,
          flags_file |-> flags_file, out |-> "ret_true"]

\* __read_voxel_files: nothing is read unless the file is a VOXET with a
\* registered property class.
read_voxel_files ==
    IF is_vo /\ DOMAIN prop_dict # {}
    THEN ReadAll
    ELSE [dict |-> prop_dict, opened |-> opened, flags |-> flags_dict,
          flags_file |-> flags_file, out |-> "ret_true"]

\* file_lines is exhausted: the statistics of the point properties are
\* computed and the voxel reader runs.
EndOfText ==
    /\ pc \in {"first", "loop"}
    /\ voxel_runs' = voxel_runs + 1
    /\ local_props' = WithPointStats(local_props)
    /\ LET r == read_voxel_files
       IN  /\ prop_dict' = r.dict
           /\ opened' = r.opened
           /\ flags_dict' = r.flags
           /\ flags_file' = r.flags_file
           /\ pc' = r.out
    /\ UNCHANGED <<cfgvars, nlines, cur, ctxvars, seqvars, typevars, coordvars, hdrvars,
                   geomvars, axisvars, files, prop_order, flags_array_length,
                   flags_bit_length, flags_bit_size, flags_offset, region_dict>>

Next ==
    \/ BlankLine \/ FirstLine \/ SkipKeyword \/ UnmatchedLine \/ ChainError
    \/ CoordOpen \/ CoordClose \/ CoordName \/ ZPositive
    \/ HeaderOpen \/ HeaderClose \/ PropClassHeader
    \/ InPropClassHeaderLine \/ InLocalPropClassHeaderLine \/ InHeaderLine
    \/ AxisUnit \/ Properties \/ Esizes \/ NoDataValues
    \/ VrtxLine \/ AtomLine \/ TrglLine \/ SegLine \/ AxisLine
    \/ EndOfText

Spec == Init /\ [][Next]_vars

\* Type detection alone: every extension against every first line, under the
\* default constructor arguments, followed by blank lines and the end of the text.
InitType ==
    /\ scn = "type"
    /\ fileExt \in ExtsOf(scn)
    /\ nondefault_coords = FALSE /\ STOP_ON_EXC = TRUE /\ debug = FALSE
    /\ files \in FilesOf(scn)
    /\ InitObject /\ TokIdle

NextType == BlankLine \/ FirstLine \/ EndOfText

SpecType == InitType /\ [][NextType]_vars

\* Per-point properties: PROPERTIES, ESIZES, NO_DATA_VALUES and the PVRTX /
\* PATOM lines that carry values, under both settings of stop_on_exc.
InitPoints ==
    /\ scn \in {"points", "patom"}
    /\ fileExt \in ExtsOf(scn)
    /\ nondefault_coords = FALSE /\ STOP_ON_EXC \in BOOLEAN /\ debug = FALSE
    /\ files \in FilesOf(scn)
    /\ InitObject /\ TokIdle

NextPoints ==
    \/ BlankLine \/ FirstLine \/ Properties \/ Esizes \/ NoDataValues
    \/ VrtxLine \/ AtomLine \/ EndOfText

SpecPoints == InitPoints /\ [][NextPoints]_vars

\* Binary property classes of a VOXET: the PROP_* lines and the voxel reader.
\* The encoding lines run under every constructor configuration.
InitVoxet ==
    /\ scn \in {"binary", "encoding"}
    /\ fileExt \in ExtsOf(scn)
    /\ nondefault_coords \in (IF scn = "encoding" THEN BOOLEAN ELSE {FALSE})
    /\ STOP_ON_EXC \in (IF scn = "encoding" THEN BOOLEAN ELSE {TRUE})
    /\ debug \in (IF scn = "encoding" THEN BOOLEAN ELSE {FALSE})
    /\ files \in FilesOf(scn)
    /\ InitObject /\ TokIdle

NextVoxet ==
    \/ BlankLine \/ FirstLine \/ PropClassHeader \/ InPropClassHeaderLine
    \/ PropFile \/ PropEsize \/ PropStorageType \/ PropSigned \/ PropNoDataValue
    \/ PropEtype \/ PropEformat \/ PropOffset
    \/ AxisLine \/ EndOfText

SpecVoxet == InitVoxet /\ [][NextVoxet]_vars

\* One binary property class registered, described and decoded.
InitDecode ==
    /\ scn = "decode"
    /\ fileExt \in ExtsOf(scn)
    /\ nondefault_coords = FALSE /\ STOP_ON_EXC = TRUE /\ debug = FALSE
    /\ files \in FilesOf(scn)
    /\ InitObject /\ TokIdle

NextDecode ==
    \/ BlankLine \/ FirstLine \/ PropClassHeader \/ InPropClassHeaderLine
    \/ PropFile \/ PropEsize \/ PropStorageType \/ PropSigned \/ PropNoDataValue
    \/ AxisLine \/ EndOfText

SpecDecode == InitDecode /\ [][NextDecode]_vars

\* Float scanning: a point property whose marker and values are written
\* with numbers and with the infinity tokens.
InitFloat ==
    /\ scn = "float"
    /\ fileExt \in ExtsOf(scn)
    /\ nondefault_coords = FALSE /\ STOP_ON_EXC \in BOOLEAN /\ debug = FALSE
    /\ files \in FilesOf(scn)
    /\ InitObject /\ TokIdle

NextFloat ==
    \/ BlankLine \/ FirstLine \/ Properties \/ Esizes \/ NoDataValues
    \/ VrtxLine \/ EndOfText

SpecFloat == InitFloat /\ [][NextFloat]_vars

\* The region flags of a VOXET, with and without a binary property class.
InitFlags ==
    /\ scn \in {"flags", "noprops"}
    /\ fileExt \in ExtsOf(scn)
    /\ nondefault_coords = FALSE /\ STOP_ON_EXC \in BOOLEAN /\ debug = FALSE
    /\ files \in FilesOf(scn)
    /\ InitObject /\ TokIdle

NextFlags ==
    \/ FirstLine \/ PropClassHeader \/ InPropClassHeaderLine
    \/ PropFile \/ PropEsize \/ PropNoDataValue \/ AxisLine
    \/ FlagsInt \/ FlagsFile \/ Region \/ EndOfText

SpecFlags == InitFlags /\ [][NextFlags]_vars

\* Headers and the coordinate-system block around geometry, axis, property
\* and flags lines, in every order.
InitHeader ==
    /\ scn = "header"
    /\ fileExt \in ExtsOf(scn)
    /\ nondefault_coords = FALSE /\ STOP_ON_EXC = TRUE /\ debug = FALSE
    /\ files \in FilesOf(scn)
    /\ InitObject /\ TokIdle

NextHeader ==
    \/ FirstLine \/ UnmatchedLine \/ CoordOpen
    \/ HeaderOpen \/ HeaderClose \/ PropClassHeader
    \/ InPropClassHeaderLine \/ InLocalPropClassHeaderLine \/ InHeaderLine
    \/ AxisUnit \/ VrtxLine \/ AtomLine \/ TrglLine \/ SegLine
    \/ PropFile \/ AxisLine \/ FlagsInt \/ FlagsFile \/ Region
    \/ EndOfText

SpecHeader == InitHeader /\ [][NextHeader]_vars

\* Tokenization alone: every line of up to MaxLineLen characters is
\* upper-cased, has its quoted parts rewritten and is split.
InitTokens ==
    /\ scn = "tokens"
    /\ fileExt \in ExtsOf(scn)
    /\ nondefault_coords = FALSE /\ STOP_ON_EXC = TRUE /\ debug = FALSE
    /\ files \in FilesOf(scn)
    /\ InitObject
    /\ line \in UNION {[1..n -> Chars] : n \in 0..MaxLineLen}
    /\ line_str = <<>> /\ splitstr_arr = <<>> /\ passes = 0 /\ tpc = "upper"

NextTokens == UpperLine \/ QuotePass \/ SplitLine

SpecTokens == InitTokens /\ [][NextTokens]_vars

(* ======================= properties of the parser ===================== *)
\* The step just taken processed the first non-blank line.
FirstLineStep == pc = "first" /\ cur' # <<>>

\* The step just taken read one more line of the file, leaving it in cur'.
LineStep == pc = "loop" /\ nlines' = nlines + 1 /\ cur' # <<>>

\* No header or property-header context is active.
OutsideHeaders == ~inHeader /\ ~inPropClassHeader /\ ~inLocalPropClassHeader

\* A returned call processes nothing more.
ReturnedFalseIsFinal == [][pc # "ret_false"]_vars

TypeFlags == <<is_ts, is_vs, is_pl, is_vo>>
NoGeometry == vrtx_arr = <<>> /\ atom_arr = <<>> /\ trgl_arr = <<>> /\ seg_arr = <<>>
NoProperties == prop_dict = <<>> /\ local_props = <<>>

\* The spellings of each extension and of each type's header line, written out.
SpelledExt(k) ==
    CASE k = "TS" -> {<<".", "t", "s">>, <<".", "T", "S">>}
      [] k = "VS" -> {<<".", "v", "s">>}
      [] k = "PL" -> {<<".", "p", "l">>}
      [] k = "VO" -> {<<".", "v", "o">>, <<".", "V", "o">>}
      [] k = "GP" -> {<<".", "g", "p">>, <<".", "G", "P">>}

SpelledHeader(k) ==
    CASE k = "TS" -> {<<"GOCAD", "TSurf", "1">>, <<"gocad", "tsurf", "1">>}
      [] k = "VS" -> {<<"GOCAD", "VSet", "1">>, <<"GOCAD", "VSET", "1">>}
      [] k = "PL" -> {<<"GOCAD", "PLine", "1">>, <<"gocad", "pline", "1">>}
      [] k = "VO" -> {<<"GOCAD", "Voxet", "1">>, <<"GOCAD", "VOXET", "1">>}

MemberTypes == {"TS", "VS", "PL", "VO"}

\* The type the claim gives extension e with first line l: the type whose
\* header the line is, if e is that type's extension or the group extension.
ClaimedType(e, l) ==
    {k \in MemberTypes : l \in SpelledHeader(k) /\ (e \in SpelledExt(k) \/ e \in SpelledExt("GP"))}

\* C1: type detection on the first non-blank line succeeds iff the extension
\* is TS, VS, PL or VO and the upper-cased line is that extension's header, or
\* the extension is GP and the line is the header of TS, VS, PL or VO; on
\* success exactly the flag of the matched header is set, on failure none
\* (a GP file that starts with a group header fails).
C1_TypeDetection ==
    [][FirstLineStep =>
        LET ks == ClaimedType(fileExt, cur')
        IN  /\ (pc' = "loop") = (ks # {})
            /\ (pc' = "ret_false") = (ks = {})
            /\ is_ts' = ("TS" \in ks) /\ is_vs' = ("VS" \in ks)
            /\ is_pl' = ("PL" \in ks) /\ is_vo' = ("VO" \in ks)
            /\ Cardinality(ks) <= 1]_vars

C1_Witness ==
    /\ fileExt = <<".", "G", "P">> /\ cur = <<"gocad", "pline", "1">>
    /\ pc = "loop" /\ is_pl /\ ~is_ts /\ ~is_vs /\ ~is_vo

\* C2: when the first non-blank line matches no signature of the extension,
\* process_gocad returns False: the process is not terminated, no later line
\* is processed, the voxel reader is not run, and the vertex, atom, triangle
\* and segment collections and both property tables are still empty.
C2_Unclassified ==
    /\ [](cur # <<>> /\ TypeFlags = <<FALSE, FALSE, FALSE, FALSE>>
          => pc = "ret_false" /\ voxel_runs = 0 /\ NoGeometry /\ NoProperties
             /\ cur \in FirstLinesOf(scn))
    /\ ReturnedFalseIsFinal

C2_Witness ==
    /\ pc = "ret_false" /\ TypeFlags = <<FALSE, FALSE, FALSE, FALSE>>
    /\ cur = <<"GOCAD", "Voxet", "1">> /\ fileExt = <<".", "t", "s">> /\ nlines = 2

\* C3 (as claimed): in every state process_gocad reaches, at most one of the
\* four parsing contexts is active.
ActiveContexts ==
    (IF inHeader THEN 1 ELSE 0) + (IF inCoord THEN 1 ELSE 0)
    + (IF inPropClassHeader THEN 1 ELSE 0) + (IF inLocalPropClassHeader THEN 1 ELSE 0)

C3_AtMostOneContext == ActiveContexts <= 1

\* C4: lines are processed one at a time in input order, and a single line
\* changes at most one of the four context flags and appends at most one
\* element to the vertex, atom, triangle and segment collections together.
ContextFlagsChanged ==
    (IF inHeader' # inHeader THEN 1 ELSE 0) + (IF inCoord' # inCoord THEN 1 ELSE 0)
    + (IF inPropClassHeader' # inPropClassHeader THEN 1 ELSE 0)
    + (IF inLocalPropClassHeader' # inLocalPropClassHeader THEN 1 ELSE 0)

GeometrySize == Len(vrtx_arr) + Len(atom_arr) + Len(trgl_arr) + Len(seg_arr)

IsPrefix(a, b) == Len(a) <= Len(b) /\ \A i \in 1..Len(a) : b[i] = a[i]

C4_OneTransitionOneAppend ==
    [][/\ nlines' \in {nlines, nlines + 1}
       /\ ContextFlagsChanged <= 1
       /\ GeometrySize' - GeometrySize \in {0, 1}
       /\ IsPrefix(vrtx_arr, vrtx_arr') /\ IsPrefix(atom_arr, atom_arr')
       /\ IsPrefix(trgl_arr, trgl_arr') /\ IsPrefix(seg_arr, seg_arr')]_vars

C4_Witness ==
    /\ cur = <<"}">> /\ ~inHeader /\ inPropClassHeader /\ Len(vrtx_arr) = 1

\* C5: a NAME line inside the coordinate-system context that names another
\* system than DEFAULT stops the parse when nondefault_coords is false:
\* process_gocad returns False, nothing later changes the state, the voxel
\* reader is not run and the process is not terminated; with
\* nondefault_coords true the parse goes on and usesDefaultCoords is False.
C5_NonDefaultCoords ==
    /\ [][LineStep /\ inCoord /\ cur'[1] = "NAME" /\ Len(cur') >= 2 /\ cur'[2] # "DEFAULT"
          => /\ ~usesDefaultCoords' /\ coord_sys_name' = cur'[2]
             /\ voxel_runs' = voxel_runs
             /\ pc' = IF nondefault_coords THEN "loop" ELSE "ret_false"]_vars
    /\ [](pc = "ret_false" => voxel_runs = 0)
    /\ ReturnedFalseIsFinal

C5_Witness ==
    /\ pc = "ret_false" /\ coord_sys_name = "FROM_SHAPE" /\ ~usesDefaultCoords
    /\ ~nondefault_coords /\ voxel_runs = 0 /\ Len(vrtx_arr) = 1

\* The step just taken appended a vertex.
VertexAppended == Len(vrtx_arr') = Len(vrtx_arr) + 1
LastVertex == vrtx_arr'[Len(vrtx_arr')]

\* The line in cur' is a VRTX / PVRTX line "n x y z ..." with an integer n
\* and three numbers.
WellFormedVrtx ==
    /\ cur'[1] \in {"VRTX", "PVRTX"} /\ Len(cur') >= 5
    /\ IsInt(cur'[2]) /\ IsFloat(cur'[3]) /\ IsFloat(cur'[4]) /\ IsFloat(cur'[5])

\* The position a VRTX line gives, token by token, times the multipliers.
ParsedX == FloatOf(cur'[3]) * xyz_mult[1]
ParsedY == FloatOf(cur'[4]) * xyz_mult[2]
ParsedZ == FloatOf(cur'[5]) * xyz_mult[3]

\* C6: once ZPOSITIVE DEPTH has been processed inside the coordinate-system
\* context, every vertex a later VRTX / PVRTX line appends has the negated
\* unit-scaled z; earlier vertices stay as they are, a ZPOSITIVE DEPTH line
\* outside the coordinate-system context changes nothing, and the inversion
\* flag is never cleared.
C6_ZInversion ==
    /\ [][LineStep /\ inCoord /\ cur' = <<"ZPOSITIVE", "DEPTH">> => invert_zaxis']_vars
    /\ [][LineStep /\ ~inCoord /\ cur' = <<"ZPOSITIVE", "DEPTH">>
          => UNCHANGED <<ctxvars, seqvars, typevars, coordvars, hdrvars,
                         geomvars, propvars, axisvars>>]_vars
    /\ [][invert_zaxis => invert_zaxis']_vars
    /\ [][IsPrefix(vrtx_arr, vrtx_arr')]_vars
    /\ [][VertexAppended /\ invert_zaxis
          => LastVertex.xyz = <<ParsedX, ParsedY, 0 - ParsedZ>>]_vars

C6_Witness ==
    /\ invert_zaxis /\ Len(vrtx_arr) = 2
    /\ vrtx_arr[1].xyz = <<1, 2, 3>> /\ vrtx_arr[2].xyz = <<1, 2, 0 - 3>>

\* C7: a well-formed VRTX / PVRTX line "n x y z ..." processed outside the
\* header and property-header contexts, with no unit conversion and no z
\* inversion, appends exactly one vertex (n, (x, y, z)) at the end; the
\* vertices before it keep value and order; n may leave gaps or go backwards.
C7_VertexAppend ==
    [][LineStep /\ OutsideHeaders /\ WellFormedVrtx
       /\ xyz_mult = <<1, 1, 1>> /\ ~invert_zaxis
       => vrtx_arr' = Append(vrtx_arr,
              [n |-> IntOf(cur'[2]),
               xyz |-> <<FloatOf(cur'[3]), FloatOf(cur'[4]), FloatOf(cur'[5])>>])]_vars

C7_Witness ==
    /\ Len(vrtx_arr) = 3
    /\ vrtx_arr[1] = [n |-> 3, xyz |-> <<1, 1, 1>>]
    /\ vrtx_arr[2] = [n |-> 1, xyz |-> <<1, 2, 3>>]
    /\ vrtx_arr[3] = [n |-> 1, xyz |-> <<1, 2, 3>>]
    /\ xyz_mult = <<1, 1, 1>> /\ ~invert_zaxis

\* The units an AXIS_UNIT line declares are KM or M on every axis.
KmOrMetres ==
    /\ cur'[1] = "AXIS_UNIT" /\ Len(cur') >= 4
    /\ \A i \in 2..4 : cur'[i] \in {"KM", "M"}

\* C8 (as claimed): after an AXIS_UNIT line that declares KM for some axes
\* and M for the others, each later vertex has exactly the KM axes multiplied
\* by 1000 and the other axes unscaled.
C8_KmAxesOnly ==
    /\ [][LineStep /\ OutsideHeaders /\ KmOrMetres
          => xyz_mult' = [i \in 1..3 |-> IF cur'[i + 1] = "KM" THEN 1000 ELSE 1]]_vars
    /\ [][VertexAppended
          => LastVertex.xyz = InvertZ(<<ParsedX, ParsedY, ParsedZ>>)]_vars

\* The line in cur' is an AXIS_* line with three numbers.
WellFormedAxis(kws) ==
    /\ cur'[1] \in kws /\ Len(cur') >= 4
    /\ IsFloat(cur'[2]) /\ IsFloat(cur'[3]) /\ IsFloat(cur'[4])

AxisValue(kw) ==
    CASE kw = "AXIS_O" -> axis_origin'
      [] kw = "AXIS_U" -> axis_u'
      [] kw = "AXIS_V" -> axis_v'
      [] kw = "AXIS_W" -> axis_w'
      [] kw = "AXIS_MIN" -> axis_min'
      [] kw = "AXIS_MAX" -> axis_max'

FloatAxes == {"AXIS_O", "AXIS_U", "AXIS_V", "AXIS_W", "AXIS_MIN", "AXIS_MAX"}

AxisScaled == <<FloatOf(cur'[2]) * xyz_mult[1], FloatOf(cur'[3]) * xyz_mult[2],
                FloatOf(cur'[4]) * xyz_mult[3]>>
AxisUnscaled == <<FloatOf(cur'[2]), FloatOf(cur'[3]), FloatOf(cur'[4])>>

\* C9 (as claimed): the multipliers AXIS_UNIT sets scale the triples of
\* AXIS_O, AXIS_U, AXIS_V, AXIS_W, AXIS_MIN and AXIS_MAX lines as they scale
\* the VRTX / PVRTX coordinates.
C9_AllAxesScaled ==
    [][LineStep /\ OutsideHeaders /\ WellFormedAxis(FloatAxes)
       => AxisValue(cur'[1]) = AxisScaled]_vars

\* C9 (amended): the multipliers scale the VRTX / PVRTX coordinates and the
\* AXIS_O triple; the AXIS_U, AXIS_V, AXIS_W, AXIS_MIN and AXIS_MAX triples
\* are stored as written, whatever the multipliers.
C9_OriginScaledOnly ==
    /\ [][LineStep /\ OutsideHeaders /\ WellFormedAxis({"AXIS_O"})
          => axis_origin' = AxisScaled]_vars
    /\ [][LineStep /\ OutsideHeaders /\ WellFormedAxis(FloatAxes \ {"AXIS_O"})
          => AxisValue(cur'[1]) = AxisUnscaled]_vars
    /\ [][VertexAppended
          => LastVertex.xyz = InvertZ(<<ParsedX, ParsedY, ParsedZ>>)]_vars

C9_Witness ==
    /\ xyz_mult = <<1000, 1, 1>>
    /\ axis_origin = <<1000, 2, 3>> /\ axis_u = <<1, 2, 3>>
    /\ Len(vrtx_arr) = 1 /\ vrtx_arr[1].xyz = <<1000, 1, 1>>

\* The line in cur' is an ATOM / PATOM line with two integers.
WellFormedAtom ==
    /\ cur'[1] \in {"ATOM", "PATOM"} /\ Len(cur') >= 3
    /\ IsInt(cur'[2]) /\ IsInt(cur'[3])

\* The vertex numbers stored so far.
VertexNumbers == {vrtx_arr[i].n : i \in 1..Len(vrtx_arr)}

\* What C10 says of an atom line: an undefined vertex ends the process with
\* no atom added, a defined one adds the atom and no vertex.
AtomEffect ==
    IF IntOf(cur'[3]) \notin VertexNumbers
    THEN pc' = "exit" /\ atom_arr' = atom_arr
    ELSE /\ atom_arr' = Append(atom_arr, [n |-> IntOf(cur'[2]), v |-> IntOf(cur'[3])])
         /\ vrtx_arr' = vrtx_arr

\* C10 (as claimed): every ATOM / PATOM line whose vertex is not defined yet
\* terminates the process, whatever stop_on_exc, and appends no atom; one
\* whose vertex was seen appends exactly one atom and no vertex.
C10_AtomAnywhere == [][LineStep /\ WellFormedAtom => AtomEffect]_vars

\* C10 (amended): the same, for the ATOM / PATOM lines processed outside the
\* header and property-header contexts.
C10_AtomOutsideHeaders == [][LineStep /\ OutsideHeaders /\ WellFormedAtom => AtomEffect]_vars

C10_Witness ==
    /\ ~STOP_ON_EXC /\ pc = "exit" /\ cur = <<"ATOM", "4", "1">>
    /\ atom_arr = <<>> /\ Len(vrtx_arr) = 1

(* ------------------------- per-point properties ----------------------- *)
\* Every declared point property takes one value, and the line just read
\* carries exactly one well-formed value for each after column col.
OneValueEach(col) ==
    /\ local_props # <<>>
    /\ \A i \in 1..Len(local_props) : local_props[i].data_sz = 1
    /\ Len(cur') = col + Len(local_props)
    /\ \A i \in 1..Len(local_props) :
         /\ IsFloat(cur'[col + i])
         /\ local_props[i].no_data_marker # Some(FloatOf(cur'[col + i]))

\* The line just read is a PATOM whose vertex is already stored.
PatomOfStoredVertex ==
    /\ cur'[1] = "PATOM" /\ Len(cur') >= 3
    /\ IsInt(cur'[2]) /\ IsInt(cur'[3])
    /\ IntOf(cur'[3]) \in VertexNumbers

\* C11: a PATOM line referencing an existing vertex v stores its property
\* values, in every point property, under the position (x, y, z) of vertex v
\* itself, wherever v stands in the vertex collection.
C11_PatomAnchoredAtVertex ==
    [][LineStep /\ OutsideHeaders /\ PatomOfStoredVertex /\ OneValueEach(3)
       => \A i \in 1..Len(local_props) :
            \E j \in 1..Len(vrtx_arr) :
               /\ vrtx_arr[j].n = IntOf(cur'[3])
               /\ vrtx_arr[j].xyz \in DOMAIN local_props'[i].data
               /\ local_props'[i].data[vrtx_arr[j].xyz] = <<FloatOf(cur'[3 + i])>>]_vars

(* ------------------------------ colours ------------------------------- *)
\* A colour value that is neither 3 or 4 floats nor a '#RRGGBB' string.
MalformedColour(vals) ==
    /\ ~(Len(vals) \in {3, 4} /\ \A i \in 1..Len(vals) : IsFloat(vals[i]))
    /\ ~(Len(vals) = 1 /\ vals[1] \in HexColours)

\* C12: a malformed *SOLID*COLOR / *ATOMS*COLOR value in the header is never
\* fatal, under every constructor configuration: the colour becomes opaque
\* white (1, 1, 1, 1) and parsing continues with the next line.
C12_MalformedColourWhite ==
    [][LineStep /\ Branch(cur') = "in_header"
       /\ HdrName(cur') \in {"*SOLID*COLOR", "*ATOMS*COLOR"}
       /\ MalformedColour(HdrValues(cur'))
       => pc' = "loop" /\ rgba_tup' = <<1, 1, 1, 1>>]_vars

(* --------------------- PROPERTIES / PROPERTY_CLASSES ------------------ *)
IsDeclaration(s) == s # <<>> /\ s[1] \in {"PROPERTIES", "PROPERTY_CLASSES"}

\* The declared class names, in the table's order.
ClassNames(props) == [i \in 1..Len(props) |-> props[i].class_name]

\* C13 (as claimed): the first PROPERTIES / PROPERTY_CLASSES line fixes the
\* ordered list of point property class names, and every later such line
\* leaves names, order, metadata and data unchanged.  Stated for a
\* declaration line that directly follows another declaration line.
C13_FirstDeclarationWins ==
    [][LineStep /\ OutsideHeaders /\ IsDeclaration(cur) /\ IsDeclaration(cur')
       => local_props' = local_props]_vars

\* C13 (amended): the first declaration line that names at least one class
\* fixes the ordered list (the names in the line's order, each a fresh
\* property class); every declaration line after it leaves the names, their
\* order and all metadata and data unchanged.
C13_FirstNamingDeclarationWins ==
    [][LineStep /\ OutsideHeaders /\ IsDeclaration(cur')
       => IF local_props = <<>>
          THEN /\ ClassNames(local_props') = Tail(cur')
               /\ \A i \in 1..Len(local_props') : local_props'[i] = PROPS(cur'[i + 1])
          ELSE local_props' = local_props]_vars

\* A later declaration was read after values had been stored.
C13_Witness ==
    /\ pc = "loop" /\ cur = <<"PROPERTY_CLASSES", "Q">>
    /\ ClassNames(local_props) = <<"P", "Q">>
    /\ local_props[1].data # <<>>

(* ----------------------- ESIZES / NO_DATA_VALUES ---------------------- *)
\* The line just read is keyword kw followed by one value per declared property.
OnePerProperty(kw) ==
    /\ cur'[1] = kw
    /\ local_props # <<>>
    /\ Len(cur') = 1 + Len(local_props)

\* C14: with n point properties declared, ESIZES with n values gives the i-th
\* property the i-th size and NO_DATA_VALUES with n values gives the i-th
\* property the i-th no-data marker, in declaration order; nothing else of
\* any property changes.
C14_PositionalSizesAndMarkers ==
    [][LineStep /\ OutsideHeaders
       => /\ (OnePerProperty("ESIZES") /\ (\A i \in 2..Len(cur') : IsInt(cur'[i]))
              => local_props' = [i \in 1..Len(local_props) |->
                     [local_props[i] EXCEPT !.data_sz = IntOf(cur'[i + 1])]])
          /\ (OnePerProperty("NO_DATA_VALUES") /\ (\A i \in 2..Len(cur') : IsFloat(cur'[i]))
              => local_props' = [i \in 1..Len(local_props) |->
                     [local_props[i] EXCEPT !.no_data_marker = Some(FloatOf(cur'[i + 1]))]])]_vars

\* Two properties have been sized 1 and 3 and then given the markers 7 and 2.
C14_Witness ==
    /\ pc = "loop" /\ cur = <<"NO_DATA_VALUES", "7.0", "2">>
    /\ ClassNames(local_props) = <<"P", "Q">>
    /\ local_props[1].data_sz = 1 /\ local_props[2].data_sz = 3
    /\ local_props[1].no_data_marker = Some(7) /\ local_props[2].no_data_marker = Some(2)

(* ------------------------ PVRTX property values ----------------------- *)
\* The tokens of the line just read from 0-based column col on, and those
\* of them that are not control nodes.
ValueTokens(col) == SubSeq(cur', col + 1, Len(cur'))
NotCN(t) == ~IsCN(t)
NonCN(v) == SelectSeq(v, NotCN)

\* The number of value tokens the properties before the i-th consume.
RECURSIVE StartOf(_)
StartOf(i) == IF i <= 1 THEN 0 ELSE StartOf(i - 1) + local_props[i - 1].data_sz

\* The values the i-th property is due: its data_sz tokens, in declaration
\* order, of the value tokens with the control nodes left out.
DueValue(i, col) ==
    LET g == SubSeq(NonCN(ValueTokens(col)), StartOf(i) + 1, StartOf(i) + local_props[i].data_sz)
    IN  [k \in 1..Len(g) |-> FloatOf(g[k])]

\* The line just read is a PVRTX with a well-formed vertex, every property
\* has size 1 or 3, and the value tokens without the control nodes are
\* exactly the floats the properties consume.
PvrtxParses ==
    /\ cur'[1] = "PVRTX" /\ WellFormedVrtx
    /\ local_props # <<>>
    /\ \A i \in 1..Len(local_props) : local_props[i].data_sz \in {1, 3}
    /\ Len(NonCN(ValueTokens(5))) = StartOf(Len(local_props) + 1)
    /\ \A k \in 1..Len(NonCN(ValueTokens(5))) : IsFloat(NonCN(ValueTokens(5))[k])

\* A component of the value due to the i-th property is its no-data marker.
HasNoData(i) ==
    \E k \in 1..local_props[i].data_sz :
       local_props[i].no_data_marker = Some(DueValue(i, 5)[k])

\* PvrtxParses, and no value is a no-data marker.
PvrtxWithValues == PvrtxParses /\ \A i \in 1..Len(local_props) : ~HasNoData(i)

\* Every property has its due value at the position of the vertex just stored.
DueValuesStored ==
    /\ pc' = "loop"
    /\ VertexAppended
    /\ \A i \in 1..Len(local_props) :
         /\ LastVertex.xyz \in DOMAIN local_props'[i].data
         /\ local_props'[i].data[LastVertex.xyz] = DueValue(i, 5)

\* Control nodes stand only directly before the first value of a property,
\* one at most.
ControlNodesLeadOnly ==
    LET v == ValueTokens(5) IN
    \A k \in 1..Len(v) :
       IsCN(v[k]) =>
          /\ k < Len(v) /\ ~IsCN(v[k + 1])
          /\ \E i \in 1..Len(local_props) : Len(NonCN(SubSeq(v, 1, k - 1))) = StartOf(i)

FirstComponents(p) == {p.data[c][1] : c \in DOMAIN p.data}

MalformedNumber(t) ==
    ~IsFloat(t) /\ ~IsCN(t) /\ t \notin {"1.#INF", "INF", "-1.#INF", "-INF"}

\* C17: a non-numeric property value on a PVRTX line is a localized
\* recoverable error: zero is stored for that property at the vertex's
\* position and the process goes on to the next line.
C17_MalformedValueZero ==
    [][LineStep /\ OutsideHeaders
       /\ cur'[1] = "PVRTX" /\ WellFormedVrtx
       /\ local_props # <<>> /\ local_props[1].data_sz = 1
       /\ Len(cur') >= 6 /\ MalformedNumber(cur'[6])
       => /\ pc' = "loop"
          /\ VertexAppended
          /\ LastVertex.xyz \in DOMAIN local_props'[1].data
          /\ local_props'[1].data[LastVertex.xyz] = <<0>>]_vars

(* ------------------------ unsupported encodings ----------------------- *)
\* A PROP_* line naming an encoding the reader does not support.
UnsupportedEncoding(s) ==
    /\ Len(s) >= 3
    /\ \/ s[1] = "PROP_ETYPE" /\ s[3] # "IEEE"
       \/ s[1] = "PROP_EFORMAT" /\ s[3] # "RAW"
       \/ s[1] = "PROP_OFFSET" /\ IsInt(s[3]) /\ IntOf(s[3]) # 0
       \/ s[1] = "PROP_STORAGE_TYPE" /\ s[3] \notin {"OCTET", "SHORT"}

\* C18: outside header and property-header contexts a PROP_ETYPE other than
\* IEEE, a PROP_EFORMAT other than RAW, a non-zero PROP_OFFSET or a
\* PROP_STORAGE_TYPE other than OCTET / SHORT terminates the process at that
\* line under every constructor configuration: nothing is stored, no later
\* line is processed, the call does not return and the voxel reader never runs.
C18_UnsupportedEncodingFatal ==
    /\ [][LineStep /\ OutsideHeaders /\ UnsupportedEncoding(cur')
          => /\ pc' = "exit"
             /\ voxel_runs' = 0 /\ opened' = <<>>
             /\ UNCHANGED <<propvars, geomvars, axisvars>>]_vars
    /\ [][pc # "exit"]_vars

\* A non-zero offset ended the process although stop_on_exc was off.
C18_Witness ==
    /\ pc = "exit" /\ cur = <<"PROP_OFFSET", "1", "4">>
    /\ ~STOP_ON_EXC /\ ~debug /\ nondefault_coords
    /\ voxel_runs = 0

(* --------------------------- the voxel reader ------------------------- *)
\* The step just taken entered __read_voxel_files.
ReaderEntered == voxel_runs' = voxel_runs + 1

\* C19: within one call the voxel reader is entered at most once, and only
\* when the text has been read to its end: the step that enters it reads no
\* line, no line is read after it, and a return of False on a line never
\* enters it.  It asks for and decodes binary files only if the file is a
\* VOXET with at least one registered binary property class; otherwise it
\* reads nothing and the call returns True.
C19_ReaderOnceAfterText ==
    /\ [](voxel_runs <= 1)
    /\ [](voxel_runs = 1 => pc \notin {"first", "loop"})
    /\ [][voxel_runs' # voxel_runs
          => ReaderEntered /\ pc \in {"first", "loop"} /\ UNCHANGED <<nlines, cur>>]_vars
    /\ [][nlines' # nlines /\ pc' = "ret_false" => voxel_runs' = 0]_vars
    /\ [][ReaderEntered /\ ~(is_vo /\ DOMAIN prop_dict # {})
          => pc' = "ret_true" /\ opened' = <<>> /\ UNCHANGED prop_dict]_vars
    /\ [](opened # <<>> => voxel_runs = 1 /\ is_vo /\ DOMAIN prop_dict # {})

\* A TSURF with a registered binary class whose file exists: the reader ran,
\* read nothing and the call returned True.
C19_Witness ==
    /\ voxel_runs = 1 /\ pc = "ret_true" /\ is_ts
    /\ "1" \in DOMAIN prop_dict /\ prop_dict["1"].file_name = "F1"
    /\ opened = <<>> /\ prop_dict["1"].data = <<>>

(* --------------------------- file size check -------------------------- *)
\* The binary file of registered class k exists and its byte size is not
\* element_size * nx * ny * nz.
SizeMismatch(k) ==
    /\ vol_dims # NoneT
    /\ prop_dict[k].file_name \in DOMAIN files
    /\ Len(files[prop_dict[k].file_name])
         # prop_dict[k].data_sz * vol_dims[1] * vol_dims[2] * vol_dims[3]

\* The dense array of class k has been created.
Populated(k) == prop_dict[k].data # <<>>

\* The reader has run on a VOXET.
ReaderRanOnVoxet == voxel_runs = 1 /\ is_vo

\* C20 (as claimed): if any registered class of a volume file references a
\* binary file of the wrong size, the run is aborted before the dense array of
\* any class is populated, whatever the number and order of the classes.
C20_NothingPopulatedOnMismatch ==
    ReaderRanOnVoxet /\ (\E k \in DOMAIN prop_dict : SizeMismatch(k))
    => pc # "ret_true" /\ \A k \in DOMAIN prop_dict : ~Populated(k)

\* C20 (amended): the run is aborted at the first class, in registration
\* order, whose file has the wrong size: the call does not return, and neither
\* that class's dense array nor the array of any class registered after it is
\* populated; classes registered before it may already hold their arrays.
C20_MismatchStopsAtThatClass ==
    ReaderRanOnVoxet
    => \A i \in 1..Len(prop_order) :
          SizeMismatch(prop_order[i])
          => /\ pc \in {"exit", "raised"}
             /\ \A j \in i..Len(prop_order) : ~Populated(prop_order[j])

\* Class 1 was decoded, then class 2's file had the wrong size and the
\* process ended.
C20_Witness ==
    /\ ReaderRanOnVoxet /\ pc = "exit"
    /\ prop_order = <<"1", "2">>
    /\ Populated("1") /\ ~SizeMismatch("1")
    /\ SizeMismatch("2") /\ ~Populated("2")
    /\ opened = <<"F1", "F2">>

(* ------------------------------- C21 ---------------------------------- *)
\* The property classes whose binary file was decoded by a reader that
\* returned True, and the typed elements of the file of such a class.
Decoded(k) == voxel_runs = 1 /\ is_vo /\ pc = "ret_true" /\ prop_dict[k].data # <<>>
FileElements(k) == FromFile(files[prop_dict[k].file_name], prop_dict[k])
LinearIndex(cell) == cell[1] + vol_dims[1] * cell[2] + vol_dims[1] * vol_dims[2] * cell[3]
IsNoData(k, v) == prop_dict[k].no_data_marker # NoneT /\ v = prop_dict[k].no_data_marker[1]

\* C21: after a property binary file is decoded, every cell (x, y, z) whose
\* value is not the no-data marker holds the file element at linear index
\* x + nx*y + nx*ny*z, and the file has exactly nx*ny*nz elements, each
\* consumed once.
C21_DecodedInFileOrder ==
    \A k \in DOMAIN prop_dict :
        Decoded(k) =>
            /\ \A cell \in DOMAIN prop_dict[k].data :
                   /\ LinearIndex(cell) + 1 \in DOMAIN FileElements(k)
                   /\ ~IsNoData(k, FileElements(k)[LinearIndex(cell) + 1])
                          => prop_dict[k].data[cell] = FileElements(k)[LinearIndex(cell) + 1]
            /\ Len(FileElements(k)) = vol_dims[1] * vol_dims[2] * vol_dims[3]

(* ------------------------------- C22 ---------------------------------- *)
\* The file value of a cell, and the file values of the cells that are not
\* the no-data marker.
FileValue(k, cell) == FileElements(k)[LinearIndex(cell) + 1]
DataValues(k) ==
    {FileValue(k, cell) : cell \in {c \in DOMAIN prop_dict[k].data : ~IsNoData(k, FileValue(k, c))}}

\* C22: in a decoded voxel property every cell whose file value is the
\* class's no-data marker holds zero, and min and max are the minimum and the
\* maximum over exactly the cells that are not no-data.
C22_NoDataZeroAndExcluded ==
    \A k \in DOMAIN prop_dict :
        Decoded(k) =>
            /\ \A cell \in DOMAIN prop_dict[k].data :
                   IsNoData(k, FileValue(k, cell)) => prop_dict[k].data[cell] = 0
            /\ DataValues(k) # {} =>
                   /\ prop_dict[k].data_stats.min = MinOf(DataValues(k))
                   /\ prop_dict[k].data_stats.max = MaxOf(DataValues(k))

\* A 2x2x2 volume of unsigned bytes decoded with the marker 3: the cell that
\* holds the marker is zero and min and max come from the other seven.
C22_Witness ==
    /\ "1" \in DOMAIN prop_dict /\ Decoded("1") /\ vol_dims = <<2, 2, 2>>
    /\ prop_dict["1"].no_data_marker = Some(3)
    /\ FileValue("1", <<0, 1, 0>>) = 3
    /\ prop_dict["1"].data[<<0, 1, 0>>] = 0
    /\ prop_dict["1"].data_stats = [min |-> 1, max |-> 201]

(* ------------------------------- C26 ---------------------------------- *)
\* The line in cur' is a TRGL line whose first k tokens after TRGL are integers.
TrglWithInts(k) ==
    /\ cur'[1] = "TRGL" /\ Len(cur') >= k + 1
    /\ \A i \in 2..(k + 1) : IsInt(cur'[i])

\* C26 as stated: a TRGL line yields one triangle whose sequence number is
\* the first integer token after TRGL and whose three vertex references are
\* the three integer tokens that follow the sequence number.
C26_ReferencesFollowSequenceNumber ==
    [][LineStep /\ OutsideHeaders /\ TrglWithInts(4)
       => trgl_arr' = Append(trgl_arr,
              [n |-> IntOf(cur'[2]),
               abc |-> <<IntOf(cur'[3]), IntOf(cur'[4]), IntOf(cur'[5])>>])]_vars

\* C26: a TRGL line yields one triangle whose three vertex references are
\* the first three integer tokens after TRGL and whose sequence number is
\* the first of them; the references are stored as given, whatever vertices
\* exist, and the vertices and the other geometry are left alone.
C26_FirstThreeTokens ==
    [][LineStep /\ OutsideHeaders /\ TrglWithInts(3)
       => /\ trgl_arr' = Append(trgl_arr,
                 [n |-> IntOf(cur'[2]),
                  abc |-> <<IntOf(cur'[2]), IntOf(cur'[3]), IntOf(cur'[4])>>])
          /\ seq_no' = IntOf(cur'[2])
          /\ UNCHANGED <<vrtx_arr, atom_arr, seg_arr>>]_vars

\* TRGL 1 2 3 4 was stored as triangle 1 with references (1, 2, 3) in a file
\* that has no vertex at all.
C26_Witness ==
    /\ cur = <<"TRGL", "1", "2", "3", "4">> /\ pc = "loop"
    /\ trgl_arr # <<>> /\ trgl_arr[Len(trgl_arr)] = [n |-> 1, abc |-> <<1, 2, 3>>]
    /\ vrtx_arr = <<>>

(* ------------------------------- C27 ---------------------------------- *)
\* The line in cur' is a PROPERTY_CLASS_HEADER line of a binary property
\* class: index, name and opening brace.
BinaryClassHeader ==
    /\ cur'[1] = "PROPERTY_CLASS_HEADER" /\ Len(cur') >= 4
    /\ cur'[3] # "{" /\ cur'[4] = "{"

\* C27: a PROPERTY_CLASS_HEADER line for a class index that is already
\* registered leaves the property class and all of its metadata as they
\* are, and the set of registered classes grows only by the index of such a
\* line, when that index is new.
C27_RegistrationIdempotent ==
    /\ [][LineStep /\ BinaryClassHeader /\ cur'[2] \in DOMAIN prop_dict
          => prop_dict' = prop_dict /\ prop_order' = prop_order]_vars
    /\ [][DOMAIN prop_dict' # DOMAIN prop_dict
          => /\ LineStep /\ BinaryClassHeader /\ cur'[2] \notin DOMAIN prop_dict
             /\ DOMAIN prop_dict' = DOMAIN prop_dict \cup {cur'[2]}
             /\ \A k \in DOMAIN prop_dict : prop_dict'[k] = prop_dict[k]]_vars

\* Class 1 was registered as TEMP and given a file; a second header for
\* index 1 under another name was then processed.
C27_Witness ==
    /\ cur = <<"PROPERTY_CLASS_HEADER", "1", "DENS", "{">> /\ pc = "loop"
    /\ "1" \in DOMAIN prop_dict
    /\ prop_dict["1"].class_name = "TEMP" /\ prop_dict["1"].file_name = "F1"
    /\ prop_order = <<"1">>

(* ------------------------------- C28 ---------------------------------- *)
\* m is the least (greatest) of the first components of the values of p.
LeastFirst(p, m) == m \in FirstComponents(p) /\ \A v \in FirstComponents(p) : m <= v
GreatestFirst(p, m) == m \in FirstComponents(p) /\ \A v \in FirstComponents(p) : m >= v

\* C28: when the text has been scanned, the min and max of every point
\* property with a stored value are the least and the greatest first
\* component of its values, a property with no stored value has the pair
\* (largest float, its negation), and the statistics are written by that one
\* step only: no line of the text sets them.
C28_PointStatsAfterText ==
    /\ [](voxel_runs = 1
          => \A i \in 1..Len(local_props) :
               IF local_props[i].data = <<>>
               THEN local_props[i].data_stats = [min |-> FloatMax, max |-> 0 - FloatMax]
               ELSE /\ LeastFirst(local_props[i], local_props[i].data_stats.min)
                    /\ GreatestFirst(local_props[i], local_props[i].data_stats.max))
    /\ [](voxel_runs = 0 => \A i \in 1..Len(local_props) : local_props[i].data_stats = NoneT)
    /\ [][voxel_runs' = voxel_runs + 1 => pc \in {"first", "loop"} /\ voxel_runs = 0]_vars

\* A scalar property with the values 7 and 2 and a 3-component property with
\* the values (1, 2, 3) and (1, 1, 3), after the text.
C28_Witness ==
    /\ voxel_runs = 1 /\ Len(local_props) = 2
    /\ local_props[1].data_stats = [min |-> 2, max |-> 7]
    /\ <<1, 2, 3>> \in DOMAIN local_props[2].data
    /\ local_props[2].data[<<1, 2, 3>>] = <<1, 2, 3>>
    /\ local_props[2].data_stats = [min |-> 1, max |-> 1]

(* ------------------------------- C29 ---------------------------------- *)
\* The infinity tokens and the no-data values a scan may be given.
PlusInf == {"1.#INF", "INF"}
MinusInf == {"-1.#INF", "-INF"}
NullValues == {NoneT, Some(7), Some(FloatMax), Some(0 - FloatMax)}

\* The value an infinity token stands for.
InfValue(tok) == IF tok \in PlusInf THEN FloatMax ELSE 0 - FloatMax

\* The line in cur' is a PVRTX line that gives the one scalar property an
\* infinity token as its value.
PvrtxWithInf ==
    /\ cur'[1] = "PVRTX" /\ Len(cur') = 6 /\ cur'[6] \in PlusInf \cup MinusInf
    /\ Len(local_props) = 1 /\ local_props[1].data_sz = 1

\* C29: float scanning maps 1.#INF and INF to the largest finite float and
\* -1.#INF and -INF to its negation and reports them converted, with or
\* without a no-data value; so such a property value is stored, and such a
\* no-data marker is recorded, as that finite value.
C29_InfinityTokens ==
    /\ [](\A tok \in PlusInf \cup MinusInf : \A nv \in NullValues :
             parse_float(tok, nv) = [conv |-> TRUE, fp |-> InfValue(tok), exc |-> FALSE])
    /\ [][LineStep /\ OutsideHeaders /\ PvrtxWithInf
          => /\ VertexAppended
             /\ LastVertex.xyz \in DOMAIN local_props'[1].data
             /\ local_props'[1].data[LastVertex.xyz] = <<InfValue(cur'[6])>>]_vars
    /\ [][LineStep /\ OutsideHeaders /\ cur'[1] = "NO_DATA_VALUES"
          /\ Len(cur') = 2 /\ cur'[2] \in PlusInf \cup MinusInf /\ Len(local_props) = 1
          => local_props'[1].no_data_marker = Some(InfValue(cur'[2]))]_vars

\* With the marker given as INF, the value INF of one vertex and the value
\* -1.#INF of another were stored as the largest float and its negation.
C29_Witness ==
    /\ Len(local_props) = 1 /\ local_props[1].no_data_marker = Some(FloatMax)
    /\ <<1, 2, 3>> \in DOMAIN local_props[1].data
    /\ local_props[1].data[<<1, 2, 3>>] = <<FloatMax>>
    /\ <<3, 2, 1>> \in DOMAIN local_props[1].data
    /\ local_props[1].data[<<3, 2, 1>>] = <<0 - FloatMax>>
    /\ cur = <<"PVRTX", "2", "3", "2", "1", "-1.#INF">>

(* ------------------------------- C23 ---------------------------------- *)
\* The text of a volume file was scanned to its end, the file declares a
\* region-flags file, and the declared element count is not nx*ny*nz.
VolumeScanned == voxel_runs = 1 /\ is_vo /\ vol_dims # NoneT
FlagsCountMismatch ==
    /\ flags_file # ""
    /\ flags_array_length # vol_dims[1] * vol_dims[2] * vol_dims[3]

\* At least one binary property class is registered and the file of every
\* class is read without error.
ClassesRead ==
    /\ DOMAIN prop_dict # {}
    /\ \A k \in DOMAIN prop_dict : ReadClass(prop_dict[k]).out = "ok"

FlagsDecoded ==
    /\ VolumeScanned /\ ClassesRead /\ pc = "ret_true"
    /\ flags_file # "" /\ flags_bit_size = 1

\* The record of a cell, and the bit numbers that are set in it and
\* registered by a REGION line.
CellsOfVolume == (0..(vol_dims[1] - 1)) \X (0..(vol_dims[2] - 1)) \X (0..(vol_dims[3] - 1))
RecordOf(cell) == files[flags_file][flags_offset + LinearIndex(cell) + 1]
RegisteredSetBits(cell) ==
    {n \in 0..7 : StrOfBit[n + 1] \in DOMAIN region_dict
                  /\ (RecordOf(cell) \div (2 ^ n)) % 2 = 1}
LowestBit(S) == CHOOSE n \in S : \A m \in S : n <= m

\* C24: with one-byte records a cell is in the region map iff its record has
\* a set bit whose number a REGION line registered; set bits that are not
\* registered count for nothing; and the cell holds the name registered for
\* the lowest-numbered registered set bit.
C24_RegionOfLowestRegisteredBit ==
    FlagsDecoded =>
        /\ DOMAIN flags_dict \subseteq CellsOfVolume
        /\ \A cell \in CellsOfVolume :
              /\ cell \in DOMAIN flags_dict <=> RegisteredSetBits(cell) # {}
              /\ RegisteredSetBits(cell) # {}
                    => flags_dict[cell] =
                           region_dict[StrOfBit[LowestBit(RegisteredSetBits(cell)) + 1]]

\* Records 8 and 11 with regions 3 (SHALE) and 1 (COAL) registered: the
\* first cell is SHALE by bit 3, the second COAL by bit 1, with bit 0 set
\* and unregistered and bit 3 set too.
C24_Witness ==
    /\ FlagsDecoded /\ files[flags_file] = <<8, 11>>
    /\ region_dict = [b \in {"3", "1"} |-> IF b = "3" THEN "SHALE" ELSE "COAL"]
    /\ flags_dict = [c \in {<<0, 0, 0>>, <<1, 0, 0>>} |->
                        IF c = <<0, 0, 0>> THEN "SHALE" ELSE "COAL"]

(* ------------------------------- C25 ---------------------------------- *)
\* C25: whatever the lines, process_gocad is still scanning, has returned
\* True or False, or has ended the process: no exception leaves it.
C25_NoExceptionEscapes == pc \in {"first", "loop", "ret_true", "ret_false", "exit"}

(* ------------------------------- C30 ---------------------------------- *)
\* The text between a pair of quotes holds a word.
HasWord(s) == \E i \in 1..Len(s) : ~IsWhite(s[i])

\* The one token a quoted text stands for: the whitespace around it gone,
\* its internal spaces replaced by underscores.
RECURSIVE Trimmed(_)
Trimmed(s) ==
    IF s # <<>> /\ IsWhite(Head(s)) THEN Trimmed(Tail(s))
    ELSE IF s # <<>> /\ IsWhite(s[Len(s)]) THEN Trimmed(SubSeq(s, 1, Len(s) - 1))
    ELSE s
QuotedToken(s) == Underscored(Trimmed(s))

\* The tokens of an upper-cased line, pair of quotes by pair of quotes from
\* the left: the text outside quotes is split at whitespace, the text inside
\* a pair is one token.
RECURSIVE TokensOf(_)
TokensOf(s) ==
    IF CountDQ(s) < 2 THEN Split(s)
    ELSE LET inner == BeforeDQ(AfterDQ(s))
         IN  Split(BeforeDQ(s))
             \o (IF HasWord(inner) THEN <<QuotedToken(inner)>> ELSE <<>>)
             \o TokensOf(AfterDQ(AfterDQ(s)))

\* Every pair of quotes of the line encloses a word.
RECURSIVE PairsHoldWords(_)
PairsHoldWords(s) ==
    \/ CountDQ(s) < 2
    \/ HasWord(BeforeDQ(AfterDQ(s))) /\ PairsHoldWords(AfterDQ(AfterDQ(s)))

\* C30: for every line, each pair of double quotes enclosing one or more
\* words yields exactly one token, internal spaces replaced by underscores
\* and the quotes removed, the tokens outside quotes being only upper-cased;
\* and every pass of the rewriting loop removes exactly two quotes, so the
\* loop ends.
C30_QuotedTextOneToken ==
    /\ [](tpc = "done" /\ PairsHoldWords(line) => splitstr_arr = TokensOf(UpperSeq(line)))
    /\ [][passes' = passes + 1 => CountDQ(line_str') = CountDQ(line_str) - 2]_vars
    /\ [](2 * passes <= MaxLineLen)

(* ------------------------------- C31 ---------------------------------- *)
\* The line has no token at position hi.
MissingToken(s, hi) == Len(s) <= hi

\* The token at position i is not an integer / not a float.
NotInt(s, i) == i < Len(s) /\ ~IsInt(A(s, i))
NotFloat(s, i) == i < Len(s) /\ parse_float(A(s, i), NoneT).exc

\* The line taken by this step makes its branch catch an exception: a
\* missing or malformed number of a VRTX, ATOM, TRGL, SEG or AXIS_* line, or
\* a malformed colour of the header.
CaughtException ==
    /\ pc = "loop" /\ nlines' = nlines + 1 /\ cur' # <<>>
    /\ LET s == cur'
           tag == Branch(s)
       IN  \/ tag = "vrtx" /\ (MissingToken(s, 4) \/ NotInt(s, 1)
                                 \/ \E i \in 2..4 : NotFloat(s, i))
           \/ tag = "atom" /\ (MissingToken(s, 2) \/ NotInt(s, 1) \/ NotInt(s, 2))
           \/ tag = "trgl" /\ (MissingToken(s, 3) \/ \E i \in 1..3 : NotInt(s, i))
           \/ tag = "seg" /\ (MissingToken(s, 2) \/ NotInt(s, 1) \/ NotInt(s, 2))
           \/ tag = "axis" /\ ~MissingToken(s, 3)
                /\ \E i \in 1..3 : IF A(s, 0) = "AXIS_N" THEN NotInt(s, i) ELSE NotFloat(s, i)
           \/ tag = "in_header" /\ HdrName(s) \in {"*SOLID*COLOR", "*ATOMS*COLOR"}
                /\ HeaderColour(HdrValues(s)).exc

\* C31: a step whose line makes the parser catch an exception ends the
\* process if and only if STOP_ON_EXC is set or the level is DEBUG;
\* otherwise parsing goes on with the next line; with STOP_ON_EXC set (the
\* constructor's default) the process always ends.
C31_CaughtExceptionExits ==
    [][CaughtException =>
         /\ (pc' = "exit") = (debug \/ STOP_ON_EXC)
         /\ (~(debug \/ STOP_ON_EXC) => pc' = "loop")
         /\ (STOP_ON_EXC => pc' = "exit")]_vars

\* A malformed colour ended the process at level DEBUG with STOP_ON_EXC off.
C31_Witness ==
    /\ pc = "exit" /\ debug /\ ~STOP_ON_EXC
    /\ cur = <<"*SOLID*COLOR:", "1", "X", "0">>
    /\ inHeader

(* ------------------------------- C32 ---------------------------------- *)
\* The dictionary make_vertex_dict returns for the collections as they are.
VertDict == make_vertex_dict(vrtx_arr, atom_arr)

DistinctVertexNumbers ==
    \A i, j \in 1..Len(vrtx_arr) : vrtx_arr[i].n = vrtx_arr[j].n => i = j

WideFlagsDecoded ==
    /\ VolumeScanned /\ ClassesRead /\ pc = "ret_true"
    /\ flags_file # "" /\ flags_bit_size >= 2

\* The record of a cell: flags_bit_size bytes, in file order.
WideRecordOf(cell) == FlagRecords(files[flags_file])[flags_offset + LinearIndex(cell) + 1]

\* Bit number k of a record read as one big-endian unsigned integer (the
\* first byte holds the highest bit numbers), and as a little-endian one
\* (the last byte holds them).
BigEndianBit(rec, k) == BitIsSet(rec[Len(rec) - (k \div 8)], k % 8)
LittleEndianBit(rec, k) == BitIsSet(rec[(k \div 8) + 1], k % 8)

\* The registered bit numbers the record of a cell has set, by either reading.
BigEndianSetBits(cell) ==
    {k \in 0..(8 * flags_bit_size - 1) :
        StrOfBit[k + 1] \in DOMAIN region_dict /\ BigEndianBit(WideRecordOf(cell), k)}
LittleEndianSetBits(cell) ==
    {k \in 0..(8 * flags_bit_size - 1) :
        StrOfBit[k + 1] \in DOMAIN region_dict /\ LittleEndianBit(WideRecordOf(cell), k)}

\* C33 (as claimed): a record wider than one byte is read as one big-endian
\* unsigned integer: region bit k of an s-byte record is bit (k mod 8) of
\* byte s-1-(k div 8), the bits scanned from 8s-1 down to 0.
C33_BigEndianRecords ==
    WideFlagsDecoded =>
        \A cell \in CellsOfVolume :
            /\ cell \in DOMAIN flags_dict <=> BigEndianSetBits(cell) # {}
            /\ BigEndianSetBits(cell) # {}
                  => flags_dict[cell] = region_dict[StrOfBit[LowestBit(BigEndianSetBits(cell)) + 1]]

\* C33 (amended): a record wider than one byte is read as one little-endian
\* unsigned integer: region bit k of an s-byte record is bit (k mod 8) of
\* byte (k div 8), the last byte of the record holding the highest bit
\* numbers; the bits are scanned from 8s-1 down to 0, so the lowest
\* registered set bit names the cell.
C33_LittleEndianRecords ==
    WideFlagsDecoded =>
        \A cell \in CellsOfVolume :
            /\ cell \in DOMAIN flags_dict <=> LittleEndianSetBits(cell) # {}
            /\ LittleEndianSetBits(cell) # {}
                  => flags_dict[cell] = region_dict[StrOfBit[LowestBit(LittleEndianSetBits(cell)) + 1]]

\* Records (8, 2) and (1, 0) with regions 9 (CLAY) and 1 (COAL) registered:
\* the first cell is CLAY by bit 1 of its second byte, where the big-endian
\* reading finds bit 1 (COAL) set; the second cell has no region.
C33_Witness ==
    /\ WideFlagsDecoded /\ files[flags_file] = <<8, 2, 1, 0>> /\ flags_offset = 0
    /\ region_dict = [b \in {"9", "1"} |-> IF b = "9" THEN "CLAY" ELSE "COAL"]
    /\ flags_dict = [c \in {<<0, 0, 0>>} |-> "CLAY"]

(* ------------------------------- C34 ---------------------------------- *)
\* This step takes a SEG line; the line holds two integer vertex references.
SegStep == pc = "loop" /\ nlines' = nlines + 1 /\ cur' # <<>> /\ Branch(cur') = "seg"
SegWellFormed(s) == Len(s) >= 3 /\ IsInt(A(s, 1)) /\ IsInt(A(s, 2))

\* C34: a SEG line never changes the running sequence number, so every
\* stored segment carries the number the last VRTX/PVRTX/ATOM/PATOM/TRGL
\* line left; a well-formed SEG line appends exactly one segment with its
\* two vertex references under that number and changes nothing else.
C34_SegKeepsSequenceNumber ==
    [][SegStep =>
         /\ seq_no' = seq_no
         /\ SegWellFormed(cur') =>
               /\ seg_arr' = Append(seg_arr,
                                 SEG(seq_no, <<IntOf(A(cur', 1)), IntOf(A(cur', 2))>>))
               /\ pc' = "loop"
               /\ UNCHANGED <<cfgvars, ctxvars, seqvars, typevars, coordvars, hdrvars,
                              vrtx_arr, atom_arr, trgl_arr, propvars, axisvars,
                              voxel_runs, binvars>>]_vars

(* ------------------------------- C35 ---------------------------------- *)
\* The header, the binary property header or the point property header is open.
InHeaderContext == inHeader \/ inPropClassHeader \/ inLocalPropClassHeader

\* C35: while one of the three header contexts is open no line changes the
\* vertex, atom, triangle or segment collections, the axis multipliers, the
\* voxel geometry or the flags metadata, and a PROP_* line leaves the binary
\* property table alone; inside the coordinate-system block alone a VRTX
\* line still stores its vertex.
C35_HeaderConsumesLines ==
    /\ [][LineStep /\ InHeaderContext =>
            /\ UNCHANGED <<geomvars, xyz_mult, xyz_unit, axisvars>>
            /\ UNCHANGED <<flags_array_length, flags_bit_length, flags_bit_size,
                           flags_offset, flags_file, region_dict, flags_dict>>
            /\ (A(cur', 0) = "PROP_FILE" => UNCHANGED prop_dict)]_vars
    /\ [][LineStep /\ inCoord /\ ~InHeaderContext /\ A(cur', 0) = "VRTX" =>
            Len(vrtx_arr') = Len(vrtx_arr) + 1]_vars

\* A FLAGS_ESIZE line and before it other lines were taken inside the binary
\* property header: the record size, the vertices and the dimensions are as
\* they were at the start.
C35_Witness ==
    /\ pc = "loop" /\ inPropClassHeader /\ nlines >= 4
    /\ cur = <<"FLAGS_ESIZE", "2">>
    /\ flags_bit_size = 0 /\ vrtx_arr = <<>> /\ vol_dims = NoneT

(* ------------------------------- C36 ---------------------------------- *)
\* This step hands its line to __parse_property_header with the binary
\* property class of the current index.
DelegatedToBinaryHeader ==
    LineStep /\ Branch(cur') = "in_prop_class_header" /\ A(cur', 0) # "}"

\* C36: whenever a line is handed to the binary property-header parsing the
\* current property-class index is a key of the binary property table, and
\* the line is parsed without an exception, whatever the order of the
\* PROPERTY_CLASS_HEADER, HEADER and closing-brace lines before it.
C36_DelegationIndexRegistered ==
    [][DelegatedToBinaryHeader => propClassIndex \in DOMAIN prop_dict /\ pc' # "raised"]_vars

(* ------------------------------- C37 ---------------------------------- *)
\* The classes were read, the declared element count is nx*ny*nz and the
\* flags file exists with flags_bit_size*nx*ny*nz bytes: the flags loops ran.
FlagsSizeCheckPassed ==
    /\ VolumeScanned /\ ClassesRead
    /\ flags_file # "" /\ ~FlagsCountMismatch
    /\ flags_file \in DOMAIN files /\ flags_bit_size >= 1
    /\ Len(files[flags_file]) = flags_bit_size * vol_dims[1] * vol_dims[2] * vol_dims[3]

\* The index of the record read for a cell, and the records there are.
FlagIndexOf(cell) == flags_offset + LinearIndex(cell)
FlagRecordCount == Len(FlagRecords(files[flags_file]))

\* The registered bit numbers set in a record.
SetBitsOfRecord(rec) ==
    {k \in 0..(8 * flags_bit_size - 1) :
        StrOfBit[k + 1] \in DOMAIN region_dict /\ LittleEndianBit(rec, k)}

\* The cell is named from the record at FLAGS_OFFSET + x + nx*y + nx*ny*z.
NamedFromItsRecord(cell) ==
    LET bits == SetBitsOfRecord(FlagRecords(files[flags_file])[FlagIndexOf(cell) + 1])
    IN  /\ cell \in DOMAIN flags_dict <=> bits # {}
        /\ bits # {} => flags_dict[cell] = region_dict[StrOfBit[LowestBit(bits) + 1]]

\* C37: once the flags file size check has passed, the record read for cell
\* (x, y, z) is the one at index FLAGS_OFFSET + x + nx*y + nx*ny*z, counted
\* in records, and every such index lies inside the decoded flags array: the
\* loops end and the call returns True.
C37_FlagReadsInRange ==
    FlagsSizeCheckPassed =>
        /\ pc = "ret_true"
        /\ \A cell \in CellsOfVolume :
              FlagIndexOf(cell) < FlagRecordCount /\ NamedFromItsRecord(cell)

(* ------------------------------- C38 ---------------------------------- *)
\* The text of the volume was scanned to its end and the file of class k has
\* PROP_ESIZE * nx * ny * nz bytes: its size check passed.
PropSizeCheckPassed(k) ==
    /\ VolumeScanned
    /\ prop_dict[k].file_name \in DOMAIN files
    /\ Len(files[prop_dict[k].file_name])
           = prop_dict[k].data_sz * vol_dims[1] * vol_dims[2] * vol_dims[3]

\* C38: whenever the size check of a property file passes, numpy has a dtype
\* for the class and the array decoded from the file has exactly nx*ny*nz
\* elements, so that every cell index read is in range, whatever PROP_ESIZE,
\* PROP_STORAGE_TYPE and PROP_SIGNED are.
C38_DecodedArrayFitsVolume ==
    \A k \in DOMAIN prop_dict :
        PropSizeCheckPassed(k) =>
            /\ ItemSize(prop_dict[k]) # 0
            /\ Len(FileElements(k)) = vol_dims[1] * vol_dims[2] * vol_dims[3]

(* ------------------------------- C39 ---------------------------------- *)
\* This step takes a PVRTX or PATOM line whose sequence number, coordinates
\* and vertex reference are well formed.
PointPropsStep ==
    /\ LineStep
    /\ LET s == cur' IN
         \/ /\ Branch(s) = "vrtx" /\ A(s, 0) = "PVRTX"
            /\ Len(s) >= 5 /\ IsInt(A(s, 1))
            /\ parse_XYZ(TRUE, A(s, 2), A(s, 3), A(s, 4), TRUE).ok
         \/ /\ Branch(s) = "atom" /\ A(s, 0) = "PATOM"
            /\ Len(s) >= 3 /\ IsInt(A(s, 1)) /\ IsInt(A(s, 2))
            /\ check_vertex(IntOf(A(s, 2)))

\* Some declared point property has an element size other than 1 or 3.
SomeSizeUnsupported == \E i \in 1..Len(local_props) : local_props[i].data_sz \notin {1, 3}

\* C39: a PVRTX or PATOM line taken while some declared point property has
\* an element size other than 1 or 3 (0 when no ESIZES line gave it one) ends
\* the process whatever STOP_ON_EXC is; with no point property declared the
\* line stores no property value and does what the VRTX or ATOM line does:
\* it appends its vertex or atom and parsing goes on.
C39_UnsupportedSizeEnds ==
    [][PointPropsStep =>
         /\ SomeSizeUnsupported => pc' \in {"exit", "raised"}
         /\ local_props = <<>> =>
               /\ local_props' = <<>> /\ pc' = "loop"
               /\ Len(vrtx_arr') + Len(atom_arr') = Len(vrtx_arr) + Len(atom_arr) + 1]_vars

====
